---- MODULE Spec2Model ----
(***************************************************************************)
(* A model of the heuristic resume extractor (backend/universal_parser.py) *)
(* and of the chunk builder that consumes its record                       *)
(* (backend/universal_ingest.py).                                          *)
(*                                                                         *)
(* A Python str is modelled as a sequence of one-character strings, a list *)
(* as a sequence, a dict as a record.  The regular expressions of the      *)
(* source are written as data (sequences of quantified character classes,  *)
(* assertions and look-aheads) and run by a small backtracking matcher     *)
(* that follows the semantics of Python's re module.                       *)
(***************************************************************************)
EXTENDS Integers, Sequences, FiniteSets, TLC

(***************************************************************************)
(* Characters and the str methods the source uses                          *)
(***************************************************************************)
NL == "\n"
LowerSeq == <<"a","b","c","d","e","f","g","h","i","j","k","l","m",
              "n","o","p","q","r","s","t","u","v","w","x","y","z">>
UpperSeq == <<"A","B","C","D","E","F","G","H","I","J","K","L","M",
              "N","O","P","Q","R","S","T","U","V","W","X","Y","Z">>
Lower == {LowerSeq[i] : i \in 1..26}
Upper == {UpperSeq[i] : i \in 1..26}
Alpha == Lower \cup Upper
Digit == {"0","1","2","3","4","5","6","7","8","9"}
Space == {" ", NL}
Punct == {".", ",", ":", ";", "@", "-", "/", "(", ")", "+", "'", "_", "|", "%", "#", "&"}
WordChar == Alpha \cup Digit \cup {"_"}
AnyChar == Alpha \cup Digit \cup Space \cup Punct
NotNL == AnyChar \ {NL}

LowerOf == [c \in Upper |-> LowerSeq[CHOOSE i \in 1..26 : UpperSeq[i] = c]]
UpperOf == [c \in Lower |-> UpperSeq[CHOOSE i \in 1..26 : LowerSeq[i] = c]]
LowerChar(c) == IF c \in Upper THEN LowerOf[c] ELSE c
UpperChar(c) == IF c \in Lower THEN UpperOf[c] ELSE c

\* str.lower(), str.upper()
StrLower(s) == [i \in 1..Len(s) |-> LowerChar(s[i])]
StrUpper(s) == [i \in 1..Len(s) |-> UpperChar(s[i])]

\* str.isupper(): at least one cased character and no lower-case one
IsUpper(s) == /\ \E i \in 1..Len(s) : s[i] \in Upper
              /\ \A i \in 1..Len(s) : s[i] \notin Lower

\* str.isalpha(): non-empty and letters only
IsAlpha(s) == Len(s) > 0 /\ \A i \in 1..Len(s) : s[i] \in Alpha

\* str.title(): the first letter of every run of letters upper-cased, the rest lower-cased
StrTitle(s) == [i \in 1..Len(s) |->
                  IF i = 1 \/ s[i-1] \notin Alpha THEN UpperChar(s[i]) ELSE LowerChar(s[i])]

\* s[a:b] with Python's clamping; a and b are 0-based offsets
Slice(s, a, b) ==
  LET lo == IF a < 0 THEN 0 ELSE IF a > Len(s) THEN Len(s) ELSE a
      hi == IF b < 0 THEN 0 ELSE IF b > Len(s) THEN Len(s) ELSE b
  IN  IF hi <= lo THEN <<>> ELSE SubSeq(s, lo + 1, hi)

\* sub in s
StartsAt(s, sub, p) == /\ p + Len(sub) - 1 <= Len(s)
                       /\ \A j \in 1..Len(sub) : s[p + j - 1] = sub[j]
Contains(s, sub) == \E p \in 1..(Len(s) - Len(sub) + 1) : StartsAt(s, sub, p)
ContainsAny(s, subs) == \E sub \in subs : Contains(s, sub)

\* s.find(sub): the 0-based offset of the first occurrence, -1 when there is none
StrFind(s, sub) ==
  IF Contains(s, sub)
  THEN (CHOOSE p \in 1..(Len(s) - Len(sub) + 1) :
          /\ StartsAt(s, sub, p)
          /\ \A q \in 1..(p - 1) : ~StartsAt(s, sub, q)) - 1
  ELSE -1

\* the k-th smallest element of a finite set of integers
Nth(P, k) == CHOOSE p \in P : Cardinality({q \in P : q < p}) = k - 1
Least(P) == CHOOSE p \in P : \A q \in P : p <= q
Greatest(P) == CHOOSE p \in P : \A q \in P : q <= p

\* s.strip()
Strip(s) ==
  LET ink == {p \in 1..Len(s) : s[p] \notin Space}
  IN  IF ink = {} THEN <<>> ELSE SubSeq(s, Least(ink), Greatest(ink))

\* s.split(sep) for a one-character separator: always at least one piece
SplitOn(s, sep) ==
  LET at == {p \in 1..Len(s) : s[p] = sep}
      n == Cardinality(at)
      cut(k) == IF k = 0 THEN 0 ELSE IF k = n + 1 THEN Len(s) + 1 ELSE Nth(at, k)
  IN  [k \in 1..(n + 1) |-> SubSeq(s, cut(k - 1) + 1, cut(k) - 1)]
SplitLines(s) == SplitOn(s, NL)

\* s.split(): the maximal runs of non-whitespace
SplitWords(s) ==
  LET starts == {p \in 1..Len(s) : s[p] \notin Space /\ (p = 1 \/ s[p - 1] \in Space)}
      ends == {p \in 1..Len(s) : s[p] \notin Space /\ (p = Len(s) \/ s[p + 1] \in Space)}
  IN  [k \in 1..Cardinality(starts) |-> SubSeq(s, Nth(starts, k), Nth(ends, k))]

\* sep.join(parts)
RECURSIVE Join(_, _)
Join(parts, sep) ==
  IF parts = <<>> THEN <<>>
  ELSE IF Len(parts) = 1 THEN parts[1]
  ELSE parts[1] \o sep \o Join(Tail(parts), sep)

(***************************************************************************)
(* Regular expressions.  A pattern is a sequence of items; a regex is a    *)
(* sequence of patterns, the alternatives of a top-level "|" in the order  *)
(* re tries them.  Positions are 1-based: position p is the gap before     *)
(* text[p].                                                                *)
(***************************************************************************)
Inf == 100000

Rep(S, lo, hi) == [t |-> "cls", s |-> S, lo |-> lo, hi |-> hi, lazy |-> FALSE]
LazyRep(S, lo, hi) == [t |-> "cls", s |-> S, lo |-> lo, hi |-> hi, lazy |-> TRUE]
One(S) == Rep(S, 1, 1)
Opt(S) == Rep(S, 0, 1)
Star(S) == Rep(S, 0, Inf)
Plus(S) == Rep(S, 1, Inf)
WordB == [t |-> "wb"]
\* "$": the end of the text or just before a final newline; with re.MULTILINE before any newline
Eos(ml) == [t |-> "eos", ml |-> ml]
Ahead(re) == [t |-> "ahead", re |-> re]
\* a group of alternatives (a|b|c); an optional group (?:a)? is AltOf(<<a, <<>>>>)
AltOf(alts) == [t |-> "alt", alts |-> alts]
OptGroup(pat) == AltOf(<<pat, <<>>>>)
\* a literal, and a literal under re.IGNORECASE
Lit(s) == [i \in 1..Len(s) |-> One({s[i]})]
LitI(s) == [i \in 1..Len(s) |-> One({LowerChar(s[i]), UpperChar(s[i])})]

IsWordAt(text, p) == p >= 1 /\ p <= Len(text) /\ text[p] \in WordChar
AtWordBoundary(text, p) == IsWordAt(text, p - 1) # IsWordAt(text, p)
AtEos(text, p, ml) ==
  \/ p = Len(text) + 1
  \/ p = Len(text) /\ text[p] = NL
  \/ ml /\ p <= Len(text) /\ text[p] = NL

\* the length of the run of characters of S at p, at most hi
RunLen(S, text, p, hi) ==
  LET stop(n) == n = hi \/ p + n > Len(text) \/ text[p + n] \notin S
  IN  IF stop(0) THEN 0
      ELSE IF stop(1) THEN 1
      ELSE CHOOSE n \in 2..(Len(text) - p + 1) : stop(n) /\ \A m \in 2..(n - 1) : ~stop(m)

\* the one element of a singleton
Only(S) == CHOOSE x \in S : TRUE
\* the match that begins at p and goes on as r, the one element of rs, does
Prefixed(p, rs) == Only({IF r = <<>> THEN <<>> ELSE <<p>> \o r : r \in rs})
\* of the pairs <<n, match>> the one of the least n (lazy) or of the greatest
BestTry(good, lazy) ==
  CHOOSE r \in good : \A q \in good : IF lazy THEN r[1] <= q[1] ELSE r[1] >= q[1]

\* The match of items k.. of pat at position p: <<>> when there is none, else the
\* positions at which items k, k+1, ... start, followed by the end of the match.
\* Every sub-match is bound by a set constructor, so that it is computed once.
RECURSIVE MatchFrom(_, _, _, _)
RECURSIVE AnyAlt(_, _, _, _)
MatchFrom(pat, k, text, p) ==
  IF k > Len(pat) THEN <<p>>
  ELSE LET it == pat[k]
           zero(ok) == IF ok THEN Prefixed(p, {MatchFrom(pat, k + 1, text, p)}) ELSE <<>>
       IN  CASE it.t = "wb" -> zero(AtWordBoundary(text, p))
             [] it.t = "eos" -> zero(AtEos(text, p, it.ml))
             [] it.t = "ahead" -> zero(AnyAlt(it.re, 1, text, p))
             [] it.t = "cls" ->
                  \* a greedy item takes the largest count the rest can follow, a lazy one the least
                  Only({IF good = {} THEN <<>> ELSE <<p>> \o BestTry(good, it.lazy)[2] :
                          good \in {{r \in {<<c, MatchFrom(pat, k + 1, text, p + c)>> :
                                               c \in it.lo..RunLen(it.s, text, p, it.hi)} :
                                       r[2] # <<>>}}})
             [] it.t = "alt" ->
                  \* the first alternative that the rest of the pattern can follow
                  Only({IF good = {} THEN <<>>
                        ELSE <<p>> \o SubSeq(BestTry(good, TRUE)[2],
                                             Len(it.alts[BestTry(good, TRUE)[1]]) + 1,
                                             Len(BestTry(good, TRUE)[2])) :
                          good \in {{r \in {<<a, MatchFrom(it.alts[a] \o SubSeq(pat, k + 1, Len(pat)),
                                                           1, text, p)>> : a \in 1..Len(it.alts)} :
                                       r[2] # <<>>}}})
AnyAlt(re, a, text, p) ==
  IF a > Len(re) THEN FALSE
  ELSE IF MatchFrom(re[a], 1, text, p) # <<>> THEN TRUE
  ELSE AnyAlt(re, a + 1, text, p)

\* A match object: alt is the alternative that matched, pos its item positions.
NoMatch == [alt |-> 0, pos |-> <<>>]
\* the match of the first alternative of re that matches at p
MatchAlt(re, text, p) ==
  Only({IF good = {} THEN NoMatch ELSE [alt |-> BestTry(good, TRUE)[1], pos |-> BestTry(good, TRUE)[2]] :
          good \in {{r \in {<<a, MatchFrom(re[a], 1, text, p)>> : a \in 1..Len(re)} : r[2] # <<>>}}})
MatchAt(re, text, p) == MatchAlt(re, text, p)

MStart(m) == m.pos[1]
MEnd(m) == m.pos[Len(m.pos)]
\* match.group(0), and the text between the starts of items a and b of the match
MText(text, m) == SubSeq(text, MStart(m), MEnd(m) - 1)
MSpan(text, m, a, b) == SubSeq(text, m.pos[a], m.pos[b] - 1)

\* a pattern whose first item takes a character matches only where such a character is
CanStart(pat, text, q) ==
  \/ pat = <<>>
  \/ pat[1].t \notin {"cls", "alt"}
  \/ /\ pat[1].t = "cls"
     /\ pat[1].lo = 0 \/ (q <= Len(text) /\ text[q] \in pat[1].s)
  \/ /\ pat[1].t = "alt"
     /\ \E a \in 1..Len(pat[1].alts) :
          LET alt == pat[1].alts[a]
          IN  \/ alt = <<>>
              \/ alt[1].t # "cls"
              \/ alt[1].lo = 0
              \/ q <= Len(text) /\ text[q] \in alt[1].s

\* the matches of re at every position of the text
Matches(re, text) ==
  LET starts == {q \in 1..(Len(text) + 1) : \E a \in 1..Len(re) : CanStart(re[a], text, q)}
  IN  {MatchAt(re, text, q) : q \in starts} \ {NoMatch}
Leftmost(ms) == CHOOSE m \in ms : \A q \in ms : MStart(m) <= MStart(q)

\* re.search: the leftmost match
Search(re, text) ==
  LET ms == Matches(re, text) IN IF ms = {} THEN NoMatch ELSE Leftmost(ms)

\* re.finditer: the successive non-overlapping matches, left to right
RECURSIVE PickFrom(_, _)
PickFrom(ms, p) ==
  LET later == {m \in ms : MStart(m) >= p}
      m == Leftmost(later)
  IN  IF later = {} THEN <<>>
      ELSE <<m>> \o PickFrom(later, IF MEnd(m) = MStart(m) THEN MEnd(m) + 1 ELSE MEnd(m))
FindIter(re, text) == PickFrom(Matches(re, text), 1)

(***************************************************************************)
(* UniversalResumeParser.extract_name                                      *)
(***************************************************************************)
Min(a, b) == IF a < b THEN a ELSE b
Max(a, b) == IF a > b THEN a ELSE b

\* [line.strip() for line in text.split('\n') if line.strip()]
NonBlank(line) == Strip(line) # <<>>
NonBlankLines(text) ==
  Only({[i \in 1..Len(kept) |-> Strip(kept[i])] : kept \in {SelectSeq(SplitLines(text), NonBlank)}})

NameLines == 10
NerLines == 5
skip_keywords ==
  { <<"s","o","f","t","w","a","r","e">>, <<"e","n","g","i","n","e","e","r">>, <<"d","e","v","e","l","o","p","e","r">>, <<"m","a","n","a","g","e","r">>, <<"a","n","a","l","y","s","t">>,
    <<"c","e","r","t","i","f","i","e","d">>, <<"p","h","o","n","e">>, <<"e","m","a","i","l">>, <<"@">>, <<"r","e","s","u","m","e">>, <<"c","v">>,
    <<"e","x","p","e","r","i","e","n","c","e">>, <<"y","e","a","r","s">>, <<"s","k","i","l","l","s">>, <<"o","b","j","e","c","t","i","v","e">>, <<"s","u","m","m","a","r","y">> }

\* 2-4 words, every purely alphabetic word starting with an upper-case letter
LooksLikeName(line) ==
  \E words \in {SplitWords(line)} :
     /\ 2 <= Len(words) /\ Len(words) <= 4
     /\ \A i \in 1..Len(words) : IsAlpha(words[i]) => words[i][1] \in Upper

NameLineOk(line) == ~ContainsAny(StrLower(line), skip_keywords) /\ LooksLikeName(line)

\* Strategy 2: the first PERSON entity of at least two tokens that the recognizer
\* returns for the first five lines; nlp is [loaded, ents], ents what spaCy finds.
RECURSIVE FirstPerson(_)
FirstPerson(ents) ==
  IF ents = <<>> THEN <<>>
  ELSE IF Head(ents).label = "PERSON" /\ Len(SplitWords(Head(ents).text)) >= 2
       THEN Head(ents).text
       ELSE FirstPerson(Tail(ents))

\* what a call gives its caller: the value it returns, or the exception it raises
Return(v) == [exc |-> "", val |-> v]
Raise(e) == [exc |-> e, val |-> <<>>]

\* extract_name without the test of line 100: None is called
extract_name_unguarded(t, n) ==
  Only({IF hits # {} THEN Return(Join(SplitWords(lines[Least(hits)]), <<" ">>))
        ELSE IF n.loaded THEN Return(FirstPerson(n.ents))
        ELSE Raise("TypeError") :
          lines \in {NonBlankLines(t)},
          hits \in {{i \in 1..Min(NameLines, Len(NonBlankLines(t))) : NameLineOk(NonBlankLines(t)[i])}}})

extract_name(t, n) ==
  Only({IF hits # {} THEN Return(Join(SplitWords(lines[Least(hits)]), <<" ">>))
        ELSE IF n.loaded THEN Return(FirstPerson(n.ents))
        ELSE Return(<<>>) :
          lines \in {NonBlankLines(t)},
          hits \in {{i \in 1..Min(NameLines, Len(NonBlankLines(t))) : NameLineOk(NonBlankLines(t)[i])}}})

(***************************************************************************)
(* UniversalResumeParser.extract_email                                     *)
(***************************************************************************)
EmailLocalCls == Alpha \cup Digit \cup {".", "_", "%", "+", "-"}
EmailDomainCls == Alpha \cup Digit \cup {".", "-"}
\* \b[A-Za-z0-9._%+-]+@[A-Za-z0-9.-]+\.[A-Z|a-z]{2,}\b
email_pattern ==
  << <<WordB, Plus(EmailLocalCls), One({"@"}), Plus(EmailDomainCls), One({"."}),
       Rep(Alpha \cup {"|"}, 2, Inf), WordB>> >>

\* re.findall for a pattern without groups: the matched strings
MatchTexts(re, t) == Only({[i \in 1..Len(ms) |-> MText(t, ms[i])] : ms \in {FindIter(re, t)}})

personal_patterns ==
  { <<"g","m","a","i","l">>, <<"y","a","h","o","o">>, <<"h","o","t","m","a","i","l">>, <<"o","u","t","l","o","o","k">>, <<"i","c","l","o","u","d">>, <<"p","r","o","t","o","n","m","a","i","l">>, <<"m","e",".","c","o","m">>, <<"l","i","v","e",".","c","o","m">> }
email_reference_indicators ==
  { <<"n","o","r","e","p","l","y">>, <<"a","d","m","i","n">>, <<"i","n","f","o">>, <<"c","o","n","t","a","c","t">>, <<"s","u","p","p","o","r","t">>, <<"h","e","l","p">>,
    <<"h","r","@">>, <<"j","o","b","s","@">>, <<"c","a","r","e","e","r","s","@">>, <<"t","e","a","m","@">> }
business_patterns == { <<"b","e","n","m","c","p","h","a","i","l">>, <<"c","o","m","p","a","n","y">>, <<"c","o","r","p">>, <<"l","t","d">> }
email_context_words == { <<"c","o","n","t","a","c","t">>, <<"r","e","f","e","r","e","n","c","e">>, <<"m","a","n","a","g","e","r">>, <<"s","u","p","e","r","v","i","s","o","r">> }

NamePartBonus == 10
MinNamePart == 2
PersonalBonus == 5
ReferencePenalty == 20
BusinessPenalty == 5
EmailContextPenalty == 15
EmailContextWindow == 50

\* the number of name parts longer than two characters found in the local part
RECURSIVE NamePartHits(_, _)
NamePartHits(parts, local) ==
  IF parts = <<>> THEN 0
  ELSE (IF Len(Head(parts)) > MinNamePart /\ Contains(local, Head(parts)) THEN 1 ELSE 0)
       + NamePartHits(Tail(parts), local)

EmailContext(t, email) ==
  Only({StrLower(Slice(t, Max(0, email_pos - EmailContextWindow),
                          email_pos + Len(email) + EmailContextWindow)) :
          email_pos \in {StrFind(StrLower(t), StrLower(email))}})

EmailScore(t, name_parts, email) ==
  Only({NamePartBonus * NamePartHits(name_parts, email_local)
        + (IF ContainsAny(email_lower, personal_patterns) THEN PersonalBonus ELSE 0)
        - (IF ContainsAny(email_lower, email_reference_indicators) THEN ReferencePenalty ELSE 0)
        - (IF ContainsAny(email_lower, business_patterns) THEN BusinessPenalty ELSE 0)
        - (IF StrFind(StrLower(t), email_lower) # -1
              /\ ContainsAny(EmailContext(t, email), email_context_words)
           THEN EmailContextPenalty ELSE 0) :
          email_lower \in {StrLower(email)},
          email_local \in {SplitOn(StrLower(email), "@")[1]}})

\* the keys of email_scores in insertion order: each distinct address at its first occurrence
RECURSIVE Distinct(_)
Distinct(s) ==
  IF s = <<>> THEN <<>>
  ELSE LET init == Distinct(SubSeq(s, 1, Len(s) - 1))
           last == s[Len(s)]
       IN  IF \E i \in 1..Len(init) : init[i] = last THEN init ELSE Append(init, last)

\* max(email_scores.items(), key=lambda x: x[1]): the first item of the highest score;
\* <<>> stands for "email_scores is empty"
BestEmail(email_scores) ==
  IF email_scores = <<>> THEN <<>>
  ELSE email_scores[CHOOSE i \in 1..Len(email_scores) :
                      /\ \A j \in 1..Len(email_scores) : email_scores[j].score <= email_scores[i].score
                      /\ \A j \in 1..(i - 1) : email_scores[j].score < email_scores[i].score]

EmailScores(t, n) ==
  Only({[i \in 1..Len(emails) |-> [email |-> emails[i], score |-> EmailScore(t, name_parts, emails[i])]] :
          emails \in {Distinct(MatchTexts(email_pattern, t))},
          name_parts \in {SplitWords(StrLower(extract_name(t, n).val))}})

\* extract_email gone wrong: the fallback "return emails[0]" taken whatever the scores
extract_email_first(t, n) ==
  LET emails == MatchTexts(email_pattern, t)
  IN  IF emails = <<>> THEN Return(<<>>) ELSE Return(emails[1])

\* extract_email gone wrong: the best address returned only when its score is positive,
\* as extract_location does
extract_email_positive(t, n) ==
  Only({IF emails = <<>> THEN Return(<<>>)
        ELSE IF best_email.score > 0 THEN Return(best_email.email)
        ELSE Return(<<>>) :
          emails \in {MatchTexts(email_pattern, t)},
          best_email \in {BestEmail(EmailScores(t, n))}})

extract_email(t, n) ==
  Only({IF emails = <<>> THEN Return(<<>>)
        ELSE IF name.exc # "" THEN name
        ELSE IF best_email # <<>> THEN Return(best_email.email)
        ELSE Return(emails[1]) :
          emails \in {MatchTexts(email_pattern, t)},
          name \in {extract_name(t, n)},
          best_email \in {BestEmail(EmailScores(t, n))}})

(***************************************************************************)
(* UniversalResumeParser.extract_phone                                     *)
(***************************************************************************)
Sep == {"-", ".", " ", NL}
phone_patterns ==
  << \* \+61[0-9]{9}
     << Lit(<<"+","6","1">>) \o <<Rep(Digit, 9, 9)>> >>,
     \* \+61[-.\s][0-9][-.\s]?[0-9]{4}[-.\s]?[0-9]{4}
     << Lit(<<"+","6","1">>) \o <<One(Sep), One(Digit), Opt(Sep), Rep(Digit, 4, 4), Opt(Sep), Rep(Digit, 4, 4)>> >>,
     \* \+?1?[-.\s]?\(?[0-9]{3}\)?[-.\s]?[0-9]{3}[-.\s]?[0-9]{4}
     << <<Opt({"+"}), Opt({"1"}), Opt(Sep), Opt({"("}), Rep(Digit, 3, 3), Opt({")"}), Opt(Sep),
          Rep(Digit, 3, 3), Opt(Sep), Rep(Digit, 4, 4)>> >>,
     \* \+?44[-.\s]?(?:\(?0\)?[-.\s]?)?[0-9]{2,5}[-.\s]?[0-9]{3,8}
     << <<Opt({"+"}), One({"4"}), One({"4"}), Opt(Sep),
          OptGroup(<<Opt({"("}), One({"0"}), Opt({")"}), Opt(Sep)>>),
          Rep(Digit, 2, 5), Opt(Sep), Rep(Digit, 3, 8)>> >>,
     \* \+[0-9]{10,15}
     << <<One({"+"}), Rep(Digit, 10, 15)>> >>,
     \* \(?[0-9]{3}\)?[-.\s]?[0-9]{3}[-.\s]?[0-9]{4}
     << <<Opt({"("}), Rep(Digit, 3, 3), Opt({")"}), Opt(Sep), Rep(Digit, 3, 3), Opt(Sep), Rep(Digit, 4, 4)>> >>,
     \* [0-9]{2,4}[-.\s][0-9]{3,4}[-.\s][0-9]{4,8}
     << <<Rep(Digit, 2, 4), One(Sep), Rep(Digit, 3, 4), One(Sep), Rep(Digit, 4, 8)>> >> >>

phone_reference_indicators ==
  { <<"c","o","n","t","a","c","t",":">>, <<"r","e","f","e","r","e","n","c","e",":">>, <<"m","a","n","a","g","e","r",":">>, <<"s","u","p","e","r","v","i","s","o","r",":">>,
    <<"d","r",".">>, <<"p","r","o","f",".">>, <<"m","r",".">>, <<"m","s",".">>, <<"m","r","s",".">>, <<"b","e","n"," ","m","c","p","h","a","i","l">>, <<"c","h","r","i","s","t","o","p","h","e","r"," ","r","e","a","d">> }
personal_indicators == { <<"m","o","b","i","l","e",":">>, <<"c","e","l","l",":">>, <<"p","h","o","n","e",":">>, <<"t","e","l",":">> }

MinPhoneLen == 10
PhoneContextWindow == 100
PhoneReferencePenalty == 10
PhonePersonalBonus == 5
PhoneEarlyBonus == 3

\* re.sub(r'[^\d+]', '', phone_text)
DigitsAndPlus(c) == c \in Digit \cup {"+"}
CleanPhone(phone_text) == SelectSeq(phone_text, DigitsAndPlus)

\* phone_start < len(text) * 0.3, with phone_start the 0-based offset
InFirstThird(phone_start, t) == 10 * phone_start < 3 * Len(t)

PhoneScore(t, phone_start, phone_text) ==
  Only({- (IF ContainsAny(context, phone_reference_indicators) THEN PhoneReferencePenalty ELSE 0)
        + (IF ContainsAny(context, personal_indicators) THEN PhonePersonalBonus ELSE 0)
        + (IF InFirstThird(phone_start, t) THEN PhoneEarlyBonus ELSE 0) :
          context \in {StrLower(Slice(t, Max(0, phone_start - PhoneContextWindow),
                                         Min(Len(t), phone_start + Len(phone_text) + PhoneContextWindow)))}})

\* the candidates one pattern adds, in match order
PatternPhones(t, re) ==
  LET valid(m) == Len(CleanPhone(MText(t, m))) >= MinPhoneLen
  IN  Only({[i \in 1..Len(kept) |->
               [phone |-> Strip(MText(t, kept[i])),
                cleaned |-> CleanPhone(MText(t, kept[i])),
                score |-> PhoneScore(t, MStart(kept[i]) - 1, MText(t, kept[i])),
                position |-> MStart(kept[i]) - 1]] :
              kept \in {SelectSeq(FindIter(re, t), valid)}})

\* the concatenation of a sequence of sequences
RECURSIVE Concat(_)
Concat(ss) == IF ss = <<>> THEN <<>> ELSE Head(ss) \o Concat(Tail(ss))

PhoneCandidates(t) ==
  Concat([k \in 1..Len(phone_patterns) |-> PatternPhones(t, phone_patterns[k])])

\* phone_candidates.sort(key=lambda x: (-x['score'], x['position'])): the sort is stable
\* key=lambda x: (-x['score'], x['position'])
PhoneKey(x) == <<0 - x.score, x.position>>
\* a < b for two tuples of int of the same length
KeyLess(a, b) == \E i \in 1..Len(a) : a[i] < b[i] /\ \A j \in 1..(i - 1) : a[j] = b[j]
\* the first element of a stable sort by keys (keys[i] is the key of items[i]): no key is
\* less than its key, and no item before it has an equal key
SortedFirst(items, keys) ==
  items[CHOOSE i \in 1..Len(items) :
          /\ \A j \in 1..Len(items) : ~KeyLess(keys[j], keys[i])
          /\ \A j \in 1..(i - 1) : KeyLess(keys[i], keys[j])]

\* items.sort(key=...) and then items[0]: IndexError on the empty list
SortedItemZero(items, keys) ==
  IF items = <<>> THEN Raise("IndexError") ELSE Return(SortedFirst(items, keys))

SortedPhoneZero(phone_candidates) ==
  SortedItemZero(phone_candidates, [i \in 1..Len(phone_candidates) |-> PhoneKey(phone_candidates[i])])

\* extract_phone gone wrong: the "if phone_candidates" test left out
extract_phone_unguarded(t) ==
  Only({LET first == SortedPhoneZero(phone_candidates)
        IN  IF first.exc # "" THEN first ELSE Return(first.val.phone) :
          phone_candidates \in {PhoneCandidates(t)}})

extract_phone(t) ==
  Only({LET first == SortedPhoneZero(phone_candidates)
        IN  IF phone_candidates # <<>>
            THEN (IF first.exc # "" THEN first ELSE Return(first.val.phone))
            ELSE Return(<<>>) :
          phone_candidates \in {PhoneCandidates(t)}})

(***************************************************************************)
(* UniversalResumeParser.extract_location                                  *)
(***************************************************************************)
CityComma == <<One(Upper), Plus(Lower), One({","}), Star(Space)>>
location_patterns ==
  << << CityComma \o Lit(<<"Q","u","e","e","n","s","l","a","n","d">>) >>,
     << CityComma \o Lit(<<"N","e","w"," ","S","o","u","t","h"," ","W","a","l","e","s">>) >>,
     << CityComma \o Lit(<<"V","i","c","t","o","r","i","a">>) >>,
     << CityComma \o Lit(<<"C","a","l","i","f","o","r","n","i","a">>) >>,
     << CityComma \o Lit(<<"N","e","w"," ","Y","o","r","k">>) >>,
     << CityComma \o Lit(<<"Q","L","D">>) >>,
     << CityComma \o Lit(<<"N","S","W">>) >>,
     << CityComma \o Lit(<<"V","I","C">>) >>,
     << CityComma \o Lit(<<"A","C","T">>) >>,
     \* [A-Z][a-z]+,\s*[A-Z][a-z]+
     << CityComma \o <<One(Upper), Plus(Lower)>> >> >>

real_locations ==
  { <<"b","r","i","s","b","a","n","e">>, <<"s","y","d","n","e","y">>, <<"m","e","l","b","o","u","r","n","e">>, <<"p","e","r","t","h">>, <<"a","d","e","l","a","i","d","e">>, <<"c","a","n","b","e","r","r","a">>,
    <<"q","u","e","e","n","s","l","a","n","d">>, <<"n","e","w"," ","s","o","u","t","h"," ","w","a","l","e","s">>, <<"v","i","c","t","o","r","i","a">>, <<"q","l","d">>, <<"n","s","w">>, <<"v","i","c">>, <<"a","c","t">>,
    <<"n","e","w"," ","y","o","r","k">>, <<"c","a","l","i","f","o","r","n","i","a">>, <<"l","o","n","d","o","n">>, <<"t","o","r","o","n","t","o">>, <<"v","a","n","c","o","u","v","e","r">> }
location_false_positives ==
  { <<"l","a","m","b","d","a">>, <<"e","c","2">>, <<"a","p","i">>, <<"r","e","a","c","t">>, <<"p","y","t","h","o","n">>, <<"n","o","d","e">>, <<"g","a","t","e","w","a","y">>,
    <<"d","e","p","l","o","y">>, <<"c","o","d","e">>, <<"s","c","r","i","p","t">>, <<"e","l","a","s","t","i","c">> }
location_context_words == { <<"e","m","a","i","l">>, <<"p","h","o","n","e">>, <<"a","d","d","r","e","s","s">>, <<"a","u","s","t","r","a","l","i","a">> }

RealLocationBonus == 10
FalsePositivePenalty == 20
LocationContextBonus == 5
LocationContextWindow == 50

LocationContext(t, match) ==
  Only({StrLower(Slice(t, Max(0, match_pos - LocationContextWindow),
                          match_pos + Len(match) + LocationContextWindow)) :
          match_pos \in {StrFind(StrLower(t), StrLower(match))}})

LocationScore(t, match) ==
  Only({(IF ContainsAny(match_lower, real_locations) THEN RealLocationBonus ELSE 0)
        - (IF ContainsAny(match_lower, location_false_positives) THEN FalsePositivePenalty ELSE 0)
        + (IF StrFind(StrLower(t), match_lower) # -1 /\ ContainsAny(context, location_context_words)
           THEN LocationContextBonus ELSE 0) :
          match_lower \in {StrLower(match)},
          context \in {LocationContext(t, match)}})

PatternLocations(t, re) ==
  Only({[i \in 1..Len(ms) |-> [location |-> ms[i], score |-> LocationScore(t, ms[i])]] :
          ms \in {MatchTexts(re, t)}})

LocationCandidates(t) ==
  Concat([k \in 1..Len(location_patterns) |-> PatternLocations(t, location_patterns[k])])

\* location_candidates.sort(key=lambda x: -x['score'])
\* key=lambda x: -x['score']
LocationKey(x) == <<0 - x.score>>

SortedLocationZero(location_candidates) ==
  SortedItemZero(location_candidates,
                 [i \in 1..Len(location_candidates) |-> LocationKey(location_candidates[i])])

\* extract_location gone wrong: the "score > 0" test left out
extract_location_unguarded(t) ==
  Only({LET best_location == SortedLocationZero(location_candidates)
        IN  IF location_candidates # <<>>
            THEN (IF best_location.exc # "" THEN best_location ELSE Return(best_location.val.location))
            ELSE Return(<<>>) :
          location_candidates \in {LocationCandidates(t)}})

extract_location(t) ==
  Only({LET best_location == SortedLocationZero(location_candidates)
        IN  IF location_candidates # <<>>
            THEN (IF best_location.exc # "" THEN best_location
                  ELSE IF best_location.val.score > 0 THEN Return(best_location.val.location)
                  ELSE Return(<<>>))
            ELSE Return(<<>>) :
          location_candidates \in {LocationCandidates(t)}})

(***************************************************************************)
(* UniversalResumeParser.extract_companies                                 *)
(***************************************************************************)
\* the suffixes are written as regular expressions but tested with "in": S\.A\. and Co\.
\* keep their backslashes
company_suffixes ==
  { <<"P","t","y"," ","L","t","d">>, <<"L","t","d">>, <<"I","n","c">>, <<"L","L","C">>, <<"C","o","r","p">>, <<"C","o","r","p","o","r","a","t","i","o","n">>,
    <<"G","m","b","H">>, <<"A","G">>, <<"S","A">>, <<"S","\\",".","A","\\",".">>, <<"B","V">>, <<"A","B">>, <<"A","S">>,
    <<"C","o","\\",".">>, <<"C","o","m","p","a","n","y">>, <<"G","r","o","u","p">>, <<"H","o","l","d","i","n","g","s">>, <<"V","e","n","t","u","r","e","s">>,
    <<"T","e","c","h","n","o","l","o","g","i","e","s">>, <<"S","y","s","t","e","m","s">>, <<"S","o","l","u","t","i","o","n","s">>, <<"S","e","r","v","i","c","e","s">> }

\* (?i)(programmer analyst|software engineer|developer|engineer)
title_pattern ==
  << LitI(<<"p","r","o","g","r","a","m","m","e","r"," ","a","n","a","l","y","s","t">>), LitI(<<"s","o","f","t","w","a","r","e"," ","e","n","g","i","n","e","e","r">>), LitI(<<"d","e","v","e","l","o","p","e","r">>), LitI(<<"e","n","g","i","n","e","e","r">>) >>

\* \d{1,2}/\d{4}\s*-\s*(\d{1,2}/\d{4}|Present)
MonthYear == <<Rep(Digit, 1, 2), One({"/"}), Rep(Digit, 4, 4)>>
company_date_pattern ==
  << MonthYear \o <<Star(Space), One({"-"}), Star(Space), AltOf(<<MonthYear, Lit(<<"P","r","e","s","e","n","t">>)>>)>> >>

DateNotSpecified == <<"D","a","t","e"," ","n","o","t"," ","s","p","e","c","i","f","i","e","d">>
DefaultPosition == <<"S","o","f","t","w","a","r","e"," ","P","r","o","f","e","s","s","i","o","n","a","l">>
ConfidenceDated == 15
ConfidenceUndated == 10
DateLookahead == 3

\* re.split with a capturing group: <<before, title1, section1, title2, section2, ...>>
WorkSections(t) ==
  Only({LET n == Len(ms)
            from(i) == IF i = 0 THEN 1 ELSE MEnd(ms[i])
            to(i) == IF i = n THEN Len(t) ELSE MStart(ms[i + 1]) - 1
        IN  [k \in 1..(2 * n + 1) |->
               IF k % 2 = 1 THEN SubSeq(t, from((k - 1) \div 2), to((k - 1) \div 2))
               ELSE MText(t, ms[k \div 2])] :
          ms \in {FindIter(title_pattern, t)}})

HasSuffix(line) == line # <<>> /\ ContainsAny(line, company_suffixes)

\* the date of the first of the lines j+1, j+2 that holds a date range
DateAfter(lines, j) ==
  Only({IF ks = {} THEN <<>>
        ELSE Only({Strip(MText(next_line, Search(company_date_pattern, next_line))) :
                     next_line \in {Strip(lines[Least(ks)])}}) :
          ks \in {{k \in (j + 1)..(Min(j + DateLookahead, Len(lines) + 1) - 1) :
                     Search(company_date_pattern, Strip(lines[k])) # NoMatch}}})

\* the record of one (title, section) pair: <<>> when the section names no company
\* the record of the company on line j of the section
CompanyAt(title, lines, j) ==
  Only({[name |-> Strip(lines[j]),
         position |-> IF title # <<>> THEN StrTitle(title) ELSE DefaultPosition,
         dates |-> IF date_line # <<>> THEN date_line ELSE DateNotSpecified,
         confidence |-> IF date_line # <<>> THEN ConfidenceDated ELSE ConfidenceUndated] :
          date_line \in {DateAfter(lines, j)}})

SectionCompany(title_raw, section_raw) ==
  Only({Only({IF js = {} THEN <<>> ELSE <<CompanyAt(title, lines, Least(js))>> :
                js \in {{j \in 1..Len(lines) : HasSuffix(Strip(lines[j]))}}}) :
          title \in {Strip(title_raw)},
          lines \in {SplitLines(Strip(section_raw))}})

CompanyCandidates(t) ==
  Only({Concat([i \in 1..((Len(ws) - 1) \div 2) |-> SectionCompany(ws[2 * i], ws[2 * i + 1])]) :
          ws \in {WorkSections(t)}})

Similar(a, b) == Contains(a, b) \/ Contains(b, a)

\* list.remove(x): the list without its first element equal to x
RemoveFirst(s, x) ==
  LET i == Least({k \in 1..Len(s) : s[k] = x})
  IN  SubSeq(s, 1, i - 1) \o SubSeq(s, i + 1, Len(s))

\* The order in which a set of str is visited follows the hashes of its members, which
\* the interpreter salts anew in every process: seed stands for the salt, and a set whose
\* members were added in the order of items is visited in the order Permuted(items, seed).
RECURSIVE Permuted(_, _)
Permuted(items, seed) ==
  IF items = <<>> THEN <<>>
  ELSE LET k == (seed % Len(items)) + 1
       IN  <<items[k]>> \o Permuted(SubSeq(items, 1, k - 1) \o SubSeq(items, k + 1, Len(items)),
                                    seed \div Len(items))

\* One pass of the loop over companies.  seen_companies is a set of str: the order in
\* which "for seen in seen_companies" visits it is that of order, a sequence of all the
\* lower-cased names; the loop leaves at the first similar name it visits.
FirstVisited(similar, order) ==
  LET rank(s) == Least({i \in 1..Len(order) : order[i] = s})
  IN  CHOOSE s \in similar : \A s2 \in similar : rank(s) <= rank(s2)

\* len(company['name']) > len(existing['name']) or
\* (company['dates'] != 'Date not specified' and existing['dates'] == 'Date not specified')
Replaces(company, existing) ==
  \/ Len(company.name) > Len(existing.name)
  \/ company.dates # DateNotSpecified /\ existing.dates = DateNotSpecified

\* the pass for a company similar to the name seen
SimilarStep(final_companies, seen_companies, company, seen) ==
  Only({IF holders # {} /\ Replaces(company, final_companies[Least(holders)])
        THEN [final |-> Append(RemoveFirst(final_companies, final_companies[Least(holders)]), company),
              seen |-> (seen_companies \ {seen}) \cup {StrLower(company.name)}]
        ELSE [final |-> final_companies, seen |-> seen_companies] :
          holders \in {{k \in 1..Len(final_companies) :
                          Contains(StrLower(final_companies[k].name), StrLower(seen))}}})

DedupStep(final_companies, seen_companies, company, order) ==
  Only({IF similar = {}
        THEN [final |-> Append(final_companies, company),
              seen |-> seen_companies \cup {StrLower(company.name)}]
        ELSE SimilarStep(final_companies, seen_companies, company, FirstVisited(similar, order)) :
          similar \in {{s \in seen_companies : Similar(StrLower(s), StrLower(company.name))}}})

RECURSIVE DedupFrom(_, _, _, _)
DedupFrom(companies, k, st, order) ==
  IF k > Len(companies) THEN st
  ELSE DedupFrom(companies, k + 1, DedupStep(st.final, st.seen, companies[k], order), order)

Deduplicate(companies, order) ==
  DedupFrom(companies, 1, [final |-> <<>>, seen |-> {}], order).final

\* the lower-cased names of the candidates, each once, in the order of their first record
SeenNames(companies) ==
  Distinct([i \in 1..Len(companies) |-> StrLower(companies[i].name)])

extract_companies(t, seed) ==
  Only({Return(Deduplicate(companies, order)) :
          companies \in {CompanyCandidates(t)},
          order \in {Permuted(SeenNames(CompanyCandidates(t)), seed)}})

(***************************************************************************)
(* UniversalResumeParser.extract_skills_adaptive                           *)
(***************************************************************************)
technical_skills_list ==
  << <<"P","y","t","h","o","n">>, <<"J","a","v","a","S","c","r","i","p","t">>, <<"T","y","p","e","S","c","r","i","p","t">>, <<"J","a","v","a">>, <<"C","#">>, <<"C","+","+">>, <<"G","o">>, <<"R","u","s","t">>,
    <<"P","H","P">>, <<"R","u","b","y">>, <<"S","w","i","f","t">>, <<"K","o","t","l","i","n">>, <<"S","c","a","l","a">>, <<"R">>, <<"M","A","T","L","A","B">>,
    <<"R","e","a","c","t">>, <<"A","n","g","u","l","a","r">>, <<"V","u","e">>, <<"S","v","e","l","t","e">>, <<"N","o","d","e",".","j","s">>, <<"E","x","p","r","e","s","s">>, <<"D","j","a","n","g","o">>,
    <<"F","l","a","s","k">>, <<"S","p","r","i","n","g">>, <<"L","a","r","a","v","e","l">>, <<"R","u","b","y"," ","o","n"," ","R","a","i","l","s">>, <<"A","S","P",".","N","E","T">>,
    <<"A","W","S">>, <<"L","a","m","b","d","a">>, <<"E","C","2">>, <<"S","3">>, <<"D","y","n","a","m","o","D","B">>, <<"C","l","o","u","d","F","o","r","m","a","t","i","o","n">>, <<"C","l","o","u","d","W","a","t","c","h">>,
    <<"A","P","I"," ","G","a","t","e","w","a","y">>, <<"E","l","a","s","t","i","c"," ","B","e","a","n","s","t","a","l","k">>, <<"R","D","S">>, <<"V","P","C">>, <<"I","A","M">>, <<"C","o","d","e","P","i","p","e","l","i","n","e">>,
    <<"C","o","d","e","D","e","p","l","o","y">>, <<"S","E","S">>, <<"A","z","u","r","e">>, <<"G","C","P">>, <<"G","o","o","g","l","e"," ","C","l","o","u","d">>, <<"K","u","b","e","r","n","e","t","e","s">>, <<"D","o","c","k","e","r">>,
    <<"T","e","r","r","a","f","o","r","m">>, <<"A","n","s","i","b","l","e">>, <<"J","e","n","k","i","n","s">>, <<"G","i","t","L","a","b"," ","C","I">>, <<"G","i","t","H","u","b"," ","A","c","t","i","o","n","s">>,
    <<"M","o","n","g","o","D","B">>, <<"P","o","s","t","g","r","e","S","Q","L">>, <<"M","y","S","Q","L">>, <<"S","Q","L","i","t","e">>, <<"R","e","d","i","s">>, <<"E","l","a","s","t","i","c","s","e","a","r","c","h">>,
    <<"O","r","a","c","l","e">>, <<"S","Q","L"," ","S","e","r","v","e","r">>, <<"C","a","s","s","a","n","d","r","a">>, <<"N","e","o","4","j">>,
    <<"G","i","t">>, <<"G","i","t","H","u","b">>, <<"G","i","t","L","a","b">>, <<"J","i","r","a">>, <<"C","o","n","f","l","u","e","n","c","e">>, <<"L","i","n","u","x">>, <<"H","T","M","L">>, <<"C","S","S">>,
    <<"G","r","a","p","h","Q","L">>, <<"R","E","S","T">>, <<"A","P","I">>, <<"A","P","I","s">>, <<"J","S","O","N">>, <<"X","M","L">>, <<"Y","A","M","L">> >>
technical_skills == {technical_skills_list[i] : i \in 1..Len(technical_skills_list)}

false_positive_skills ==
  { <<"E","X","P","E","R","I","E","N","C","E">>, <<"E","D","U","C","A","T","I","O","N">>, <<"P","R","O","J","E","C","T","S">>, <<"P","E","R","S","O","N","A","L">>, <<"C","E","R","T","I","F","I","C","A","T","I","O","N","S">>,
    <<"S","K","I","L","L","S">>, <<"I","N","T","E","R","E","S","T","S">>, <<"W","O","R","K">>, <<"C","O","N","T","A","C","T">>, <<"R","E","F","E","R","E","N","C","E","S">>, <<"S","U","M","M","A","R","Y">>,
    <<"M","c","P","h","a","i","l">>, <<"A","C","T">>, <<"N","F","T","s">>, <<"S","P","A","s">>, <<"P","W","A">>, <<"E","R","C","-","7","2","1","a","n","d">>, <<"E","R","C","-","1","1","5","5">> }

\* (?=\n\s*[A-Z]{2,}|\n\s*$|$); under (?i) [A-Z] takes a letter of either case
SectionEnd(ml) ==
  Ahead(<< <<One({NL}), Star(Space), Rep(Alpha, 2, Inf)>>,
           <<One({NL}), Star(Space), Eos(ml)>>,
           <<Eos(ml)>> >>)
SOpt == Opt({"s", "S"})
\* (?i)(technical\s+skills?|skills?|technologies)\s*:?\s*(.*?)(?=...), DOTALL | MULTILINE
skills_section_pattern ==
  << << AltOf(<< LitI(<<"t","e","c","h","n","i","c","a","l">>) \o <<Plus(Space)>> \o LitI(<<"s","k","i","l","l">>) \o <<SOpt>>,
                 LitI(<<"s","k","i","l","l">>) \o <<SOpt>>,
                 LitI(<<"t","e","c","h","n","o","l","o","g","i","e","s">>) >>),
        Star(Space), Opt({":"}), Star(Space), LazyRep(AnyChar, 0, Inf), SectionEnd(TRUE) >> >>
SkillsGroup == 5
\* (?i)technologies\s*:?\s*(.*?)(?=...)
technologies_pattern ==
  << LitI(<<"t","e","c","h","n","o","l","o","g","i","e","s">>) \o
     <<Star(Space), Opt({":"}), Star(Space), LazyRep(AnyChar, 0, Inf), SectionEnd(TRUE)>> >>
TechnologiesGroup == 16

\* matches[0]'s captured section text, with the blank the source puts before it
FirstSection(t, re, group) ==
  Only({IF m = NoMatch THEN <<>> ELSE <<" ">> \o MSpan(t, m, group, group + 1) : m \in {Search(re, t)}})

SkillsText(t) ==
  FirstSection(t, skills_section_pattern, SkillsGroup)
    \o FirstSection(t, technologies_pattern, TechnologiesGroup)

SkillsSearchText(t) ==
  Only({IF Strip(skills_text) # <<>> THEN StrLower(skills_text) ELSE StrLower(t) :
          skills_text \in {SkillsText(t)}})

\* the positions of s at which \b holds
WordBoundaries(s) == {p \in 1..(Len(s) + 1) : AtWordBoundary(s, p)}
\* re.search(rf'\b{re.escape(word)}\b', s), given the word boundaries of s
WholeWord(s, bounds, word) ==
  \E p \in bounds :
     /\ p + Len(word) \in bounds
     /\ StartsAt(s, word, p)

HeaderLike(skill) == IsUpper(skill) /\ Len(skill) > 4 /\ IsAlpha(skill)

\* the set the source collects; filtered_skills lists it in the set's iteration order
FoundSkills(search_text) ==
  Only({{skill \in technical_skills : WholeWord(search_text, bounds, StrLower(skill))} :
          bounds \in {WordBoundaries(search_text)}})

SkillSet(t) ==
  Only({{skill \in skills \ false_positive_skills : ~HeaderLike(skill)} :
          skills \in {Only({FoundSkills(search_text) : search_text \in {SkillsSearchText(t)}})}})

\* "for skill in skills" visits the set in the order its hashes give
extract_skills_adaptive(t, seed) ==
  Only({LET found(skill) == skill \in skills
        IN  Return(Permuted(SelectSeq(technical_skills_list, found), seed)) :
          skills \in {SkillSet(t)}})

(***************************************************************************)
(* dict: a function on the keys that are set; {} is the empty function     *)
(***************************************************************************)
EmptyDict == <<>>
SetKey(d, k, v) == (k :> v) @@ d
HasKey(d, k) == k \in DOMAIN d
\* d.get(k, default)
Get(d, k, default) == IF k \in DOMAIN d THEN d[k] ELSE default
InList(x, s) == \E i \in 1..Len(s) : s[i] = x

(***************************************************************************)
(* UniversalResumeParser.extract_education                                 *)
(***************************************************************************)
\* (?i)education\s*(.*?)(?=\n\s*[A-Z]{2,}|\n\s*$|$), DOTALL
education_section_pattern ==
  << LitI(<<"e","d","u","c","a","t","i","o","n">>) \o <<Star(Space), LazyRep(AnyChar, 0, Inf), SectionEnd(FALSE)>> >>
EducationGroup == 11
MinLineLen == 3

LettersAndSpace == Alpha \cup Space
\* the degree patterns the section scan tries on each line, all under (?i);
\* g1 and g2 are the items at which groups 1 and 2 start (0: the pattern has no second group)
line_degree_patterns ==
  << \* bachelor\s+of\s+([A-Za-z\s]+)
     [re |-> << LitI(<<"b","a","c","h","e","l","o","r">>) \o <<Plus(Space)>> \o LitI(<<"o","f">>) \o <<Plus(Space), Plus(LettersAndSpace)>> >>,
      groups |-> 1, g1 |-> 13, g2 |-> 0],
     \* master\s+of\s+([A-Za-z\s]+)
     [re |-> << LitI(<<"m","a","s","t","e","r">>) \o <<Plus(Space)>> \o LitI(<<"o","f">>) \o <<Plus(Space), Plus(LettersAndSpace)>> >>,
      groups |-> 1, g1 |-> 11, g2 |-> 0],
     \* (bachelor|master|phd|doctorate)\s+([A-Za-z\s]+)
     [re |-> << << AltOf(<<LitI(<<"b","a","c","h","e","l","o","r">>), LitI(<<"m","a","s","t","e","r">>), LitI(<<"p","h","d">>), LitI(<<"d","o","c","t","o","r","a","t","e">>)>>),
                   Plus(Space), Plus(LettersAndSpace) >> >>,
      groups |-> 2, g1 |-> 1, g2 |-> 3],
     \* (b\.?\s*[a-z]+|m\.?\s*[a-z]+|phd|ph\.?d\.?)
     [re |-> << << AltOf(<< <<One({"b", "B"}), Opt({"."}), Star(Space), Plus(Alpha)>>,
                            <<One({"m", "M"}), Opt({"."}), Star(Space), Plus(Alpha)>>,
                            LitI(<<"p","h","d">>),
                            LitI(<<"p","h">>) \o <<Opt({"."}), One({"d", "D"}), Opt({"."})>> >>) >> >>,
      groups |-> 1, g1 |-> 1, g2 |-> 0] >>

\* the degree the first matching pattern gives the line; <<>> when none matches
\* the degree pattern k gives the line it matches
PatternDegree(k, line) ==
  Only({IF p.groups > 1
        THEN StrTitle(Strip(MSpan(line, m, p.g1, p.g1 + 1) \o <<" ">> \o MSpan(line, m, p.g2, p.g2 + 1)))
        ELSE StrTitle(Strip(MText(line, m))) :
          p \in {line_degree_patterns[k]},
          m \in {Search(line_degree_patterns[k].re, line)}})

LineDegree(line) ==
  Only({IF hits = {} THEN <<>> ELSE PatternDegree(Least(hits), line) :
          hits \in {{k \in 1..Len(line_degree_patterns) :
                       Search(line_degree_patterns[k].re, line) # NoMatch}}})

institution_keywords == { <<"u","n","i","v","e","r","s","i","t","y">>, <<"c","o","l","l","e","g","e">>, <<"i","n","s","t","i","t","u","t","e">> }
\* (\d{1,2}/\d{4}\s*-\s*\d{1,2}/\d{4})
education_date_pattern ==
  << MonthYear \o <<Star(Space), One({"-"}), Star(Space)>> \o MonthYear >>
education_location_patterns ==
  << << CityComma \o <<Rep(Upper, 2, 3)>> >>,
     << CityComma \o <<One(Upper), Plus(Lower)>> >> >>

\* the location a line gives: of the patterns that match, the last one's match
LineLocation(line) ==
  Only({IF hits = {} THEN <<>>
        ELSE MText(line, Search(education_location_patterns[Greatest(hits)], line)) :
          hits \in {{k \in 1..Len(education_location_patterns) :
                       Search(education_location_patterns[k], line) # NoMatch}}})

\* one line of the section scan; st is [current, entries]
\* if cond: d[k] = v
SetIf(cond, d, k, v) == IF cond THEN SetKey(d, k, v) ELSE d

\* current_entry after the four tests of a line
LineEntry(current_entry, line, degree) ==
  Only({SetIf(location # <<>>,
              SetIf(date_match # NoMatch,
                    SetIf(ContainsAny(StrLower(line), institution_keywords),
                          SetIf(degree # <<>>, current_entry, "degree", degree),
                          "institution", line),
                    "dates", MText(line, date_match)),
              "location", location) :
          date_match \in {Search(education_date_pattern, line)},
          location \in {LineLocation(line)}})

\* the scan gone wrong: the entry is emitted on a degree line only when it holds a field
\* other than the degree, and stays open otherwise
EducationLine_open(st, line) ==
  Only({Only({IF degree # <<>> /\ DOMAIN current_entry # {"degree"}
              THEN [current |-> EmptyDict,
                    entries |-> IF InList(current_entry, st.entries) THEN st.entries
                                ELSE Append(st.entries, current_entry)]
              ELSE [current |-> current_entry, entries |-> st.entries] :
                current_entry \in {LineEntry(st.current, line, degree)}}) :
          degree \in {LineDegree(line)}})

\* one stripped line of the section scan; st is [current, entries]
EducationLine(st, line) ==
  Only({Only({IF degree # <<>> /\ current_entry # EmptyDict
              THEN [current |-> EmptyDict,
                    entries |-> IF InList(current_entry, st.entries) THEN st.entries
                                ELSE Append(st.entries, current_entry)]
              ELSE [current |-> current_entry, entries |-> st.entries] :
                current_entry \in {LineEntry(st.current, line, degree)}}) :
          degree \in {LineDegree(line)}})

EducationStep(st, raw) ==
  Only({IF Len(line) < MinLineLen THEN st ELSE EducationLine(st, line) : line \in {Strip(raw)}})

RECURSIVE EducationScan(_, _, _)
EducationScan(lines, k, st) ==
  IF k > Len(lines) THEN st ELSE EducationScan(lines, k + 1, EducationStep(st, lines[k]))

\* the entries of the section scan, the remaining entry included
\* the entries of the scan of the section text, the remaining entry included
ScanEntries(education_text) ==
  Only({IF st.current # EmptyDict /\ (HasKey(st.current, "degree") \/ HasKey(st.current, "institution"))
        THEN Append(st.entries, st.current)
        ELSE st.entries :
          st \in {Only({EducationScan(lines, 1, [current |-> EmptyDict, entries |-> <<>>]) :
                          lines \in {SplitLines(education_text)}})}})

SectionEntries(t) ==
  Only({IF m = NoMatch THEN <<>> ELSE ScanEntries(MSpan(t, m, EducationGroup, EducationGroup + 1)) :
          m \in {Search(education_section_pattern, t)}})

NotSentence == AnyChar \ {",", NL, "."}
OfIn == AltOf(<< <<Plus(Space)>> \o LitI(<<"o","f">>) \o <<Plus(Space)>>,
                 <<Plus(Space)>> \o LitI(<<"i","n">>) \o <<Plus(Space)>>,
                 <<Plus(Space)>> >>)
InOnly == AltOf(<< <<Plus(Space)>> \o LitI(<<"i","n">>) \o <<Plus(Space)>>, <<Plus(Space)>> >>)
Subject == <<One(Alpha), Plus(NotSentence)>>
\* self.degree_patterns, run with re.IGNORECASE; g is the item at which group 1 starts,
\* 0 for the patterns without a group
degree_patterns ==
  << [re |-> << LitI(<<"B","a","c","h","e","l","o","r">>) \o <<OptGroup(LitI(<<"'","s">>)), OfIn>> \o Subject >>, g |-> 11],
     [re |-> << LitI(<<"M","a","s","t","e","r">>) \o <<OptGroup(LitI(<<"'","s">>)), OfIn>> \o Subject >>, g |-> 9],
     [re |-> << LitI(<<"P","h","D">>) \o <<InOnly>> \o Subject >>, g |-> 5],
     [re |-> << LitI(<<"D","o","c","t","o","r">>) \o <<OptGroup(LitI(<<"a","t","e">>)), OfIn>> \o Subject >>, g |-> 9],
     [re |-> << LitI(<<"A","s","s","o","c","i","a","t","e">>) \o <<OfIn>> \o Subject >>, g |-> 11],
     [re |-> << LitI(<<"D","i","p","l","o","m","a">>) \o <<OfIn>> \o Subject >>, g |-> 9],
     [re |-> << LitI(<<"C","e","r","t","i","f","i","c","a","t","e">>) \o <<OfIn>> \o Subject >>, g |-> 13],
     \* B\.?[A-Z]\.?(?:\s+|$)
     [re |-> << <<One({"b", "B"}), Opt({"."}), One(Alpha), Opt({"."}),
                  AltOf(<< <<Plus(Space)>>, <<Eos(FALSE)>> >>)>> >>, g |-> 0],
     \* M\.?[A-Z]\.?(?:\s+|$)
     [re |-> << <<One({"m", "M"}), Opt({"."}), One(Alpha), Opt({"."}),
                  AltOf(<< <<Plus(Space)>>, <<Eos(FALSE)>> >>)>> >>, g |-> 0] >>
MinDegreeLen == 3

\* re.findall: group 1 of every match, the whole match for a pattern without a group
FindAllGroup(p, t) ==
  Only({[i \in 1..Len(ms) |->
           IF p.g = 0 THEN MText(t, ms[i]) ELSE SubSeq(t, ms[i].pos[p.g], MEnd(ms[i]) - 1)] :
          ms \in {FindIter(p.re, t)}})

LongEnough(match) == Len(match) > MinDegreeLen
PatternDegrees(p, t) ==
  Only({[i \in 1..Len(kept) |-> [degree |-> Strip(kept[i])]] :
          kept \in {SelectSeq(FindAllGroup(p, t), LongEnough)}})

\* the legacy approach: bare degree entries from the whole document
LegacyEntries(t) ==
  Concat([k \in 1..Len(degree_patterns) |-> Only({PatternDegrees(p, t) : p \in {degree_patterns[k]}})])

extract_education(t) ==
  Only({IF education_entries = <<>> THEN Return(LegacyEntries(t)) ELSE Return(education_entries) :
          education_entries \in {SectionEntries(t)}})

(***************************************************************************)
(* UniversalResumeParser.extract_certifications                            *)
(***************************************************************************)
\* the glyphs pdfminer leaves in the text: the fi and fl ligatures and the en dash
FiLigature == "<fi>"
FlLigature == "<fl>"
EnDash == "<en>"
\* text.replace('fi-ligature', 'fi').replace('fl-ligature', 'fl').replace('en dash', '-')
CleanGlyph(c) ==
  IF c = FiLigature THEN <<"f","i">> ELSE IF c = FlLigature THEN <<"f","l">> ELSE IF c = EnDash THEN <<"-">> ELSE <<c>>
GlyphStart(t, i) == i + Cardinality({k \in 1..(i - 1) : Len(CleanGlyph(t[k])) = 2})
CleanText(t) ==
  IF \A i \in 1..Len(t) : CleanGlyph(t[i]) = <<t[i]>> THEN t
  ELSE [j \in 1..GlyphStart(t, Len(t) + 1) - 1 |->
          LET i == CHOOSE i \in 1..Len(t) : GlyphStart(t, i) <= j /\ j < GlyphStart(t, i + 1)
          IN  CleanGlyph(t[i])[j - GlyphStart(t, i) + 1]]

major_sections == { <<"I","N","T","E","R","E","S","T","S">>, <<"E","D","U","C","A","T","I","O","N">>, <<"S","K","I","L","L","S">>, <<"E","X","P","E","R","I","E","N","C","E">>, <<"P","R","O","J","E","C","T","S">> }
MinCertLen == 10
MinDescriptionLen == 20

\* the stripped, non-empty lines between the CERTIFICATIONS heading and the next major section
\* the lines of the section that starts at the first of the headings heads
SectionLines(lines, heads) ==
  Only({Only({[k \in 1..Cardinality(kept) |-> Strip(lines[Nth(kept, k)])] :
                kept \in {{i \in (Least(heads) + 1)..(IF stops = {} THEN Len(lines) ELSE Least(stops) - 1) :
                             i \notin heads /\ Strip(lines[i]) # <<>>}}}) :
          stops \in {{i \in (Least(heads) + 1)..Len(lines) : StrUpper(Strip(lines[i])) \in major_sections}}})

CertLines(t) ==
  Only({Only({IF heads = {} THEN <<>> ELSE SectionLines(lines, heads) :
                heads \in {{i \in 1..Len(lines) : StrUpper(Strip(lines[i])) = <<"C","E","R","T","I","F","I","C","A","T","I","O","N","S">>}}}) :
          lines \in {SplitLines(CleanText(t))}})

IsCertTitle(line) ==
  /\ Contains(StrLower(line), <<"c","e","r","t","i","f","i","e","d">>) \/ Contains(StrLower(line), <<"c","e","r","t","i","f","i","c","a","t","e">>)
  /\ Len(line) > MinCertLen

\* one line of the scan over cert_lines; st is [current, certs]
CertStep(st, line) ==
  IF IsCertTitle(line)
  THEN [current |-> line,
        certs |-> IF st.current # <<>> THEN Append(st.certs, Strip(st.current)) ELSE st.certs]
  ELSE IF line # <<>> /\ Contains(line, <<"(">>) /\ Contains(line, <<")">>)
  THEN [current |-> IF st.current # <<>> THEN st.current \o <<" ">> \o line ELSE st.current,
        certs |-> st.certs]
  ELSE IF line # <<>> /\ Len(line) > MinDescriptionLen
          /\ st.current # <<>> /\ ~InList(st.current, st.certs)
  THEN [current |-> <<>>, certs |-> Append(st.certs, Strip(st.current))]
  ELSE st

RECURSIVE CertScan(_, _, _)
CertScan(lines, k, st) ==
  IF k > Len(lines) THEN st ELSE CertScan(lines, k + 1, CertStep(st, lines[k]))

CleanCert(cert) == Join(SplitWords(cert), <<" ">>)
KeepCert(cert) == Len(CleanCert(cert)) > MinCertLen /\ Contains(StrLower(CleanCert(cert)), <<"c","e","r","t","i","f","i","e","d">>)

\* the certifications of the scan, the last one included
ScanCerts(cert_lines) ==
  Only({IF st.current # <<>> /\ ~InList(st.current, st.certs)
        THEN Append(st.certs, Strip(st.current)) ELSE st.certs :
          st \in {CertScan(cert_lines, 1, [current |-> <<>>, certs |-> <<>>])}})

extract_certifications(t) ==
  Only({Return([i \in 1..Len(kept) |-> CleanCert(kept[i])]) :
          kept \in {SelectSeq(Only({ScanCerts(cert_lines) : cert_lines \in {CertLines(t)}}), KeepCert)}})

(***************************************************************************)
(* UniversalResumeParser.extract_interests                                 *)
(***************************************************************************)
\* (?i)\binterests?\b\s*\n
interests_pattern ==
  << <<WordB>> \o LitI(<<"i","n","t","e","r","e","s","t">>) \o <<SOpt, WordB, Star(Space), One({NL})>> >>
interest_headings == { <<"i","n","t","e","r","e","s","t","s">>, <<"h","o","b","b","i","e","s">>, <<"p","e","r","s","o","n","a","l">> }
MinInterestLen == 2
MinHeadingLen == 10

SkippedInterest(line) == line = <<>> \/ Len(line) < MinInterestLen
NextHeading(line) == ~SkippedInterest(line) /\ IsUpper(line) /\ Len(line) > MinHeadingLen
IsInterest(line) ==
  /\ ~SkippedInterest(line)
  /\ Len(line) > MinInterestLen /\ ~IsUpper(line) /\ StrLower(line) \notin interest_headings

\* dict.fromkeys-like: the first occurrence of every item, compared lower-cased
RECURSIVE DistinctLower(_)
DistinctLower(s) ==
  IF s = <<>> THEN <<>>
  ELSE LET init == DistinctLower(SubSeq(s, 1, Len(s) - 1))
           last == s[Len(s)]
       IN  IF \E i \in 1..Len(init) : StrLower(init[i]) = StrLower(last) THEN init
           ELSE Append(init, last)

\* the stripped lines of the text after the heading
StrippedLines(interests_text) ==
  Only({[i \in 1..Len(lines) |-> Strip(lines[i])] : lines \in {SplitLines(Strip(interests_text))}})

\* the lines before the next heading
UntilHeading(lines) ==
  Only({SubSeq(lines, 1, IF stops = {} THEN Len(lines) ELSE Least(stops) - 1) :
          stops \in {{i \in 1..Len(lines) : NextHeading(lines[i])}}})

InterestsAfter(interests_text) ==
  Only({DistinctLower([i \in 1..Len(kept) |-> StrTitle(kept[i])]) :
          kept \in {SelectSeq(Only({UntilHeading(lines) : lines \in {StrippedLines(interests_text)}}),
                              IsInterest)}})

extract_interests(t) ==
  Only({IF m = NoMatch THEN Return(<<>>) ELSE Return(InterestsAfter(SubSeq(t, MEnd(m), Len(t)))) :
          m \in {Search(interests_pattern, t)}})

(***************************************************************************)
(* UniversalResumeParser.extract_references                                *)
(***************************************************************************)
\* ([A-Z][a-z]+\s+[A-Z][a-z]+) under (?i)
TwoNames == <<One(Alpha), Plus(Alpha), Plus(Space), One(Alpha), Plus(Alpha)>>
\* groups is the number of groups of the pattern, g1 and g2 the items at which they start
ref_indicators ==
  << \* (dr\.|prof\.|mr\.|ms\.|mrs\.)\s+([A-Z][a-z]+\s+[A-Z][a-z]+)
     [re |-> << << AltOf(<<LitI(<<"d","r",".">>), LitI(<<"p","r","o","f",".">>), LitI(<<"m","r",".">>), LitI(<<"m","s",".">>), LitI(<<"m","r","s",".">>)>>),
                   Plus(Space) >> \o TwoNames >>,
      groups |-> 2, g1 |-> 1, g2 |-> 3],
     \* (manager|supervisor|director|lead|head)\s*:?\s*([A-Z][a-z]+\s+[A-Z][a-z]+)
     [re |-> << << AltOf(<<LitI(<<"m","a","n","a","g","e","r">>), LitI(<<"s","u","p","e","r","v","i","s","o","r">>), LitI(<<"d","i","r","e","c","t","o","r">>),
                           LitI(<<"l","e","a","d">>), LitI(<<"h","e","a","d">>)>>),
                   Star(Space), Opt({":"}), Star(Space) >> \o TwoNames >>,
      groups |-> 2, g1 |-> 1, g2 |-> 5],
     \* contact\s*:?\s*[^\n]*?([A-Z][a-z]+\s+[A-Z][a-z]+)
     [re |-> << LitI(<<"c","o","n","t","a","c","t">>) \o <<Star(Space), Opt({":"}), Star(Space), LazyRep(NotNL, 0, Inf)>>
                \o TwoNames >>,
      groups |-> 1, g1 |-> 12, g2 |-> 0] >>
RefBefore == 2
RefAfter == 5
RefPhonePatterns == 3
MinRefInfo == 2

\* match.group(n): the text from the item at which group n starts to the end of the name
RefGroup(line, m, p, n) ==
  IF n = 1 /\ p.groups = 2 THEN MSpan(line, m, p.g1, p.g1 + 1)
  ELSE SubSeq(line, m.pos[IF n = 1 THEN p.g1 ELSE p.g2], MEnd(m) - 1)

\* the first email and the first phone of the lines i-2 .. i+4 (lines are numbered from 1)
\* the lines around line i in which a reference's contact is looked for
RefWindow(lines, i) == Max(1, i - RefBefore)..Min(Len(lines), i + RefAfter - 1)
\* the first of the first three phone patterns that match the line, 0 when none does
RefPhonePattern(line) ==
  Only({IF ks = {} THEN 0 ELSE Least(ks) :
          ks \in {{k \in 1..RefPhonePatterns : Search(phone_patterns[k], line) # NoMatch}}})
FirstEmail(line) == Only({MText(line, m) : m \in {Search(email_pattern, line)}})
FirstPhone(line) ==
  Only({Strip(MText(line, m)) : m \in {Search(phone_patterns[RefPhonePattern(line)], line)}})

RefContact(lines, i, name) ==
  Only({SetIf(withPhone # {},
              SetIf(withEmail # {}, [name |-> Strip(name)], "email", FirstEmail(lines[Least(withEmail)])),
              "phone", FirstPhone(lines[Least(withPhone)])) :
          withEmail \in {{j \in RefWindow(lines, i) : Search(email_pattern, lines[j]) # NoMatch}},
          withPhone \in {{j \in RefWindow(lines, i) : RefPhonePattern(lines[j]) # 0}}})

\* the reference a line gives: <<>> when no indicator matches or no contact is found
\* ref_name: group 2 of the indicator's match, group 1 when it has one group
RefName(line, k) ==
  Only({IF p.groups >= 2 THEN RefGroup(line, m, p, 2) ELSE RefGroup(line, m, p, 1) :
          p \in {ref_indicators[k]},
          m \in {Search(ref_indicators[k].re, line)}})

\* the reference of line i, which indicator k matches
IndicatedReference(lines, i, k) ==
  Only({IF Cardinality(DOMAIN ref_info) >= MinRefInfo THEN <<ref_info>> ELSE <<>> :
          ref_info \in {RefContact(lines, i, RefName(Strip(lines[i]), k))}})

LineReference(lines, i) ==
  Only({IF hits = {} THEN <<>> ELSE IndicatedReference(lines, i, Least(hits)) :
          hits \in {{k \in 1..Len(ref_indicators) :
                       Search(ref_indicators[k].re, Strip(lines[i])) # NoMatch}}})

\* the first reference of every name
RECURSIVE DistinctNames(_)
DistinctNames(s) ==
  IF s = <<>> THEN <<>>
  ELSE LET init == DistinctNames(SubSeq(s, 1, Len(s) - 1))
           last == s[Len(s)]
       IN  IF \E i \in 1..Len(init) : init[i].name = last.name THEN init ELSE Append(init, last)

extract_references(t) ==
  Only({Return(DistinctNames(Concat([i \in 1..Len(lines) |-> LineReference(lines, i)]))) :
          lines \in {SplitLines(t)}})

(***************************************************************************)
(* UniversalResumeParser.parse_resume                                      *)
(***************************************************************************)
\* the first of the calls that raised, when one did
FirstRaised(calls) ==
  Only({IF raised = {} THEN Return(<<>>) ELSE calls[Least(raised)] :
          raised \in {{i \in 1..Len(calls) : calls[i].exc # ""}}})

\* t is the text extract_text_from_pdf gives ("" when pdfminer fails), n the NER model
\* and seed the hash salt of the process
\* the record parse_resume builds when no call raised; the three counts of parsing_stats
\* come from a second call of each extractor
ParsedData(t, name, email, phone, location, companies, skills, education, certifications, interests, references, companies2, skills2, references2) ==
  [personal |-> [name |-> name.val, email |-> email.val,
                 phone |-> phone.val, location |-> location.val],
   experience |-> [companies |-> companies.val],
   skills |-> skills.val,
   education |-> education.val,
   certifications |-> certifications.val,
   interests |-> interests.val,
   references |-> references.val,
   parsing_stats |-> [text_length |-> Len(t),
                      companies_found |-> Len(companies2.val),
                      skills_found |-> Len(skills2.val),
                      references_found |-> Len(references2.val)]]

parse_resume(t, n, seed) ==
  Only({LET raised == FirstRaised(<<name, email, phone, location, companies, skills, education,
                                    certifications, interests, references,
                                    companies2, skills2, references2>>)
        IN  IF t = <<>> THEN Return(EmptyDict)
            ELSE IF raised.exc # "" THEN raised
            ELSE Return(ParsedData(t, name, email, phone, location, companies, skills, education,
                                   certifications, interests, references,
                                   companies2, skills2, references2)) :
          name \in {extract_name(t, n)},
          email \in {extract_email(t, n)},
          phone \in {extract_phone(t)},
          location \in {extract_location(t)},
          companies \in {extract_companies(t, seed)},
          skills \in {extract_skills_adaptive(t, seed)},
          education \in {extract_education(t)},
          certifications \in {extract_certifications(t)},
          interests \in {extract_interests(t)},
          references \in {extract_references(t)},
          companies2 \in {extract_companies(t, seed)},
          skills2 \in {extract_skills_adaptive(t, seed)},
          references2 \in {extract_references(t)}})

(***************************************************************************)
(* universal_ingest.create_universal_chunks                                *)
(***************************************************************************)
\* d.get(k) is truthy: the key is set and its value is not empty
Truthy(d, k) == HasKey(d, k) /\ d[k] # <<>>

Bullet == "<bullet>"
DigitChars == <<"0", "1", "2", "3", "4", "5", "6", "7", "8", "9">>
\* str(n) for n >= 0
RECURSIVE IntStr(_)
IntStr(n) == IF n < 10 THEN <<DigitChars[n + 1]>> ELSE IntStr(n \div 10) \o <<DigitChars[(n % 10) + 1]>>

Labelled(d, k, label) == IF Truthy(d, k) THEN <<label \o d[k]>> ELSE <<>>

PersonalChunk(personal, name) ==
  LET personal_info == Labelled(personal, "name", <<"N","a","m","e",":"," ">>)
                         \o Labelled(personal, "email", <<"E","m","a","i","l",":"," ">>)
                         \o Labelled(personal, "phone", <<"P","h","o","n","e",":"," ">>)
                         \o Labelled(personal, "location", <<"L","o","c","a","t","i","o","n",":"," ">>)
  IN  IF Truthy(personal, "name")
      THEN << [text |-> <<"P","e","r","s","o","n","a","l"," ","I","n","f","o","r","m","a","t","i","o","n",":","\n">> \o Join(personal_info, <<"\n">>) \o <<"\n","\n">> \o name
                          \o <<" ","i","s"," ","a","v","a","i","l","a","b","l","e"," ","f","o","r"," ","c","o","n","t","a","c","t"," ","v","i","a"," ","t","h","e"," ","a","b","o","v","e"," ","i","n","f","o","r","m","a","t","i","o","n",".">>,
               metadata |-> [section |-> <<"p","e","r","s","o","n","a","l">>, type |-> <<"c","o","n","t","a","c","t","_","i","n","f","o">>, person |-> name]] >>
      ELSE <<>>

company_skip_words == { <<"e","x","p","e","r","i","e","n","c","e">>, <<"w","o","r","k">>, <<"a","c","h","i","e","v","e","m","e","n","t","s">> }

CompanyChunk(company_data, name) ==
  LET raw_name == Strip(Get(company_data, "name", <<>>))
      position == Get(company_data, "position", DefaultPosition)
      dates == Get(company_data, "dates", DateNotSpecified)
      parts == SplitLines(raw_name)
      company_name == IF Contains(raw_name, <<NL>>) THEN Strip(parts[Len(parts)]) ELSE raw_name
      experience_text ==
        <<"W","o","r","k"," ","E","x","p","e","r","i","e","n","c","e",":","\n","C","o","m","p","a","n","y",":"," ">> \o company_name \o <<"\n","P","o","s","i","t","i","o","n",":"," ">> \o position
          \o <<"\n","D","a","t","e","s",":"," ">> \o dates \o <<"\n","E","m","p","l","o","y","e","e",":"," ">> \o name \o <<"\n","\n">> \o name
          \o <<" ","w","o","r","k","e","d"," ","a","t"," ">> \o company_name \o <<" ","a","s"," ","a"," ">> \o position
          \o (IF dates # DateNotSpecified THEN <<" ","f","r","o","m"," ">> \o dates ELSE <<>>)
          \o <<","," ","c","o","n","t","r","i","b","u","t","i","n","g"," ","t","o"," ","d","e","v","e","l","o","p","m","e","n","t"," ","p","r","o","j","e","c","t","s",","," ","t","e","c","h","n","i","c","a","l"," ","s","o","l","u","t","i","o","n","s",","," ","a","n","d"," ","s","o","f","t","w","a","r","e"," ","e","n","g","i","n","e","e","r","i","n","g"," ","t","a","s","k","s",".">>
  IN  IF company_name # <<>> /\ ~ContainsAny(StrLower(company_name), company_skip_words)
      THEN << [text |-> experience_text,
               metadata |-> [section |-> <<"e","x","p","e","r","i","e","n","c","e">>, type |-> <<"c","o","m","p","a","n","y">>,
                             company_name |-> company_name, position |-> position,
                             dates |-> dates, person |-> name]] >>
      ELSE <<>>

chunk_false_positives ==
  { <<"E","X","P","E","R","I","E","N","C","E">>, <<"E","D","U","C","A","T","I","O","N">>, <<"P","R","O","J","E","C","T","S">>, <<"P","E","R","S","O","N","A","L">>, <<"C","E","R","T","I","F","I","C","A","T","I","O","N","S">>,
    <<"S","K","I","L","L","S">>, <<"I","N","T","E","R","E","S","T","S">>, <<"W","O","R","K">>, <<"M","c","P","h","a","i","l">>, <<"A","C","T">>, <<"P","W","A">>, <<"N","F","T","s">>, <<"S","P","A","s">> }
MaxListedSkills == 15
MaxAcronymLen == 4

\* (len(skill) > 1 and skill not in false_positives and not skill.isupper()) or len(skill) <= 4
KeepSkill(skill) ==
  \/ (Len(skill) > 1 /\ skill \notin chunk_false_positives /\ ~IsUpper(skill))
  \/ Len(skill) <= MaxAcronymLen

SkillsChunk(skills, name) ==
  LET filtered_skills == SelectSeq(skills, KeepSkill)
      listed == SubSeq(filtered_skills, 1, Min(MaxListedSkills, Len(filtered_skills)))
      skills_text ==
        <<"T","e","c","h","n","i","c","a","l"," ","S","k","i","l","l","s"," ","a","n","d"," ","E","x","p","e","r","t","i","s","e",":","\n">> \o name \o <<" ","i","s"," ","p","r","o","f","i","c","i","e","n","t"," ","i","n",":"," ">> \o Join(listed, <<","," ">>)
          \o (IF Len(filtered_skills) > MaxListedSkills
              THEN <<" ","a","n","d"," ">> \o IntStr(Len(filtered_skills) - MaxListedSkills) \o <<" ","o","t","h","e","r"," ","t","e","c","h","n","o","l","o","g","i","e","s",".">>
              ELSE <<>>)
  IN  IF skills # <<>> /\ filtered_skills # <<>>
      THEN << [text |-> skills_text,
               metadata |-> [section |-> <<"s","k","i","l","l","s">>, type |-> <<"t","e","c","h","n","i","c","a","l","_","s","k","i","l","l","s">>, person |-> name]] >>
      ELSE <<>>

\* the for ... else over the lines of a multi-line institution
CleanInstitution(institution) ==
  LET institution_parts == SplitLines(institution)
      named == {i \in 1..Len(institution_parts) :
                  \/ Contains(StrLower(institution_parts[i]), <<"u","n","i","v","e","r","s","i","t","y">>)
                  \/ Contains(StrLower(institution_parts[i]), <<"c","o","l","l","e","g","e">>)}
  IN  IF ~Contains(institution, <<NL>>) THEN institution
      ELSE IF named # {} THEN Strip(institution_parts[Least(named)])
      ELSE Strip(institution_parts[Len(institution_parts)])

EducationChunk(edu, name) ==
  LET edu_parts == Labelled(edu, "degree", <<"D","e","g","r","e","e",":"," ">>)
                     \o (IF Truthy(edu, "institution")
                         THEN <<<<"I","n","s","t","i","t","u","t","i","o","n",":"," ">> \o CleanInstitution(edu["institution"])>> ELSE <<>>)
                     \o Labelled(edu, "dates", <<"D","a","t","e","s",":"," ">>)
                     \o Labelled(edu, "location", <<"L","o","c","a","t","i","o","n",":"," ">>)
      education_text ==
        <<"E","d","u","c","a","t","i","o","n"," ","B","a","c","k","g","r","o","u","n","d",":","\n">> \o Join(edu_parts, <<"\n">>) \o <<"\n","\n">> \o name \o <<" ","s","t","u","d","i","e","d"," ","a","t"," ">>
          \o Get(edu, "institution", <<"t","h","i","s"," ","i","n","s","t","i","t","u","t","i","o","n">>)
          \o (IF Truthy(edu, "dates") THEN <<" ","f","r","o","m"," ">> \o edu["dates"] ELSE <<>>)
          \o <<" ","a","n","d"," ","e","a","r","n","e","d"," ","a"," ">> \o Get(edu, "degree", <<"d","e","g","r","e","e">>) \o <<".">>
  IN  IF edu_parts # <<>>
      THEN << [text |-> education_text,
               metadata |-> [section |-> <<"e","d","u","c","a","t","i","o","n">>, type |-> <<"a","c","a","d","e","m","i","c">>,
                             institution |-> Get(edu, "institution", <<>>),
                             degree |-> Get(edu, "degree", <<>>),
                             dates |-> Get(edu, "dates", <<>>), person |-> name]] >>
      ELSE <<>>

MinValidCertLen == 10
\* (len(cert) > 10 and not cert.isupper() and 'certified' in cert.lower())
\*   or 'certificate' in cert.lower()
ValidCert(cert) ==
  \/ (Len(cert) > MinValidCertLen /\ ~IsUpper(cert) /\ Contains(StrLower(cert), <<"c","e","r","t","i","f","i","e","d">>))
  \/ Contains(StrLower(cert), <<"c","e","r","t","i","f","i","c","a","t","e">>)

CertificationsChunk(certifications, name) ==
  LET valid_certs == SelectSeq(certifications, ValidCert)
      bullets == [i \in 1..Len(valid_certs) |-> <<Bullet, " ">> \o valid_certs[i]]
  IN  IF valid_certs # <<>>
      THEN << [text |-> <<"C","e","r","t","i","f","i","c","a","t","i","o","n","s",":","\n">> \o name \o <<" ","h","o","l","d","s"," ","t","h","e"," ","f","o","l","l","o","w","i","n","g"," ","c","e","r","t","i","f","i","c","a","t","i","o","n","s",":","\n">>
                          \o Join(bullets, <<"\n">>),
               metadata |-> [section |-> <<"c","e","r","t","i","f","i","c","a","t","i","o","n","s">>, type |-> <<"c","r","e","d","e","n","t","i","a","l","s">>, person |-> name]] >>
      ELSE <<>>

RefInfo(ref) ==
  <<Bullet, " ">> \o ref["name"]
    \o (IF Truthy(ref, "phone") THEN <<" ","-"," ","P","h","o","n","e",":"," ">> \o ref["phone"] ELSE <<>>)
    \o (IF Truthy(ref, "email") THEN <<" ","-"," ","E","m","a","i","l",":"," ">> \o ref["email"] ELSE <<>>)

ReferencesChunk(references, name) ==
  LET named(ref) == Truthy(ref, "name")
      kept == SelectSeq(references, named)
      ref_parts == [i \in 1..Len(kept) |-> RefInfo(kept[i])]
  IN  IF references # <<>> /\ ref_parts # <<>>
      THEN << [text |-> <<"P","r","o","f","e","s","s","i","o","n","a","l"," ","R","e","f","e","r","e","n","c","e","s",":","\n">> \o name
                          \o <<" ","h","a","s"," ","p","r","o","v","i","d","e","d"," ","t","h","e"," ","f","o","l","l","o","w","i","n","g"," ","p","r","o","f","e","s","s","i","o","n","a","l"," ","r","e","f","e","r","e","n","c","e","s",":","\n">>
                          \o Join(ref_parts, <<"\n">>),
               metadata |-> [section |-> <<"r","e","f","e","r","e","n","c","e","s">>, type |-> <<"c","o","n","t","a","c","t","s">>, person |-> name]] >>
      ELSE <<>>

InterestsChunk(interests, name) ==
  IF interests # <<>>
  THEN << [text |-> <<"P","e","r","s","o","n","a","l"," ","I","n","t","e","r","e","s","t","s",":","\n">> \o name \o <<" ","e","n","j","o","y","s",":"," ">> \o Join(interests, <<","," ">>),
           metadata |-> [section |-> <<"i","n","t","e","r","e","s","t","s">>, type |-> <<"h","o","b","b","i","e","s">>, person |-> name]] >>
  ELSE <<>>

create_universal_chunks(parsed_data) ==
  LET personal == Get(parsed_data, "personal", EmptyDict)
      name == Get(personal, "name", <<"U","n","k","n","o","w","n">>)
      companies == Get(Get(parsed_data, "experience", EmptyDict), "companies", <<>>)
      education == Get(parsed_data, "education", <<>>)
  IN  PersonalChunk(personal, name)
        \o Concat([i \in 1..Len(companies) |-> CompanyChunk(companies[i], name)])
        \o SkillsChunk(Get(parsed_data, "skills", <<>>), name)
        \o Concat([i \in 1..Len(education) |-> EducationChunk(education[i], name)])
        \o CertificationsChunk(Get(parsed_data, "certifications", <<>>), name)
        \o ReferencesChunk(Get(parsed_data, "references", <<>>), name)
        \o InterestsChunk(Get(parsed_data, "interests", <<>>), name)

(***************************************************************************)
(* ingest_json_resume.create_json_chunks                                   *)
(***************************************************************************)
\* if cond: text += s
When(cond, s) == IF cond THEN s ELSE <<>>
\* for item in items: text += f"\n<bullet> {item}"
Bulleted(items) == Concat([i \in 1..Len(items) |-> <<NL, Bullet, " ">> \o items[i]])

JsonPersonalInfo(personal) ==
  Labelled(personal, "name", <<"N","a","m","e",":"," ">>)
    \o Labelled(personal, "title", <<"T","i","t","l","e",":"," ">>)
    \o Labelled(personal, "email", <<"E","m","a","i","l",":"," ">>)
    \o Labelled(personal, "location", <<"L","o","c","a","t","i","o","n",":"," ">>)
    \o Labelled(personal, "website", <<"W","e","b","s","i","t","e",":"," ">>)
    \o Labelled(personal, "linkedin", <<"L","i","n","k","e","d","I","n",":"," ">>)
    \o Labelled(personal, "github", <<"G","i","t","H","u","b",":"," ">>)

JsonPersonalChunk(personal, name) ==
  IF Truthy(personal, "name")
  THEN << [text |-> <<"P","e","r","s","o","n","a","l"," ","I","n","f","o","r","m","a","t","i","o","n",":","\n">> \o Join(JsonPersonalInfo(personal), <<"\n">>) \o <<"\n","\n">> \o name
                      \o <<" ","i","s"," ","a","n"," ","e","x","p","e","r","i","e","n","c","e","d"," ","s","o","f","t","w","a","r","e"," ","e","n","g","i","n","e","e","r"," ","b","a","s","e","d"," ","i","n"," ">>
                      \o Get(personal, "location", <<"A","u","s","t","r","a","l","i","a">>) \o <<".">>,
           metadata |-> [section |-> <<"p","e","r","s","o","n","a","l">>, type |-> <<"c","o","n","t","a","c","t","_","i","n","f","o">>, person |-> name,
                         source |-> <<"p","e","r","s","o","n","a","l","_","i","n","f","o">>]] >>
  ELSE <<>>

\* the summary chunk with no person in its metadata
JsonSummaryChunk_anonymous(resume_data, name) ==
  IF Truthy(resume_data, "professional_summary")
  THEN << [text |-> <<"P","r","o","f","e","s","s","i","o","n","a","l"," ","S","u","m","m","a","r","y",":","\n","T","i","t","l","e",":"," ">>
                      \o Get(resume_data["professional_summary"], "title", <<>>) \o <<"\n","\n">>
                      \o Get(resume_data["professional_summary"], "description", <<>>),
           metadata |-> [section |-> <<"s","u","m","m","a","r","y">>, type |-> <<"o","v","e","r","v","i","e","w">>,
                         source |-> <<"p","r","o","f","e","s","s","i","o","n","a","l","_","s","u","m","m","a","r","y">>]] >>
  ELSE <<>>

JsonSummaryChunk(resume_data, name) ==
  IF Truthy(resume_data, "professional_summary")
  THEN << [text |-> <<"P","r","o","f","e","s","s","i","o","n","a","l"," ","S","u","m","m","a","r","y",":","\n","T","i","t","l","e",":"," ">>
                      \o Get(resume_data["professional_summary"], "title", <<>>) \o <<"\n","\n">>
                      \o Get(resume_data["professional_summary"], "description", <<>>),
           metadata |-> [section |-> <<"s","u","m","m","a","r","y">>, type |-> <<"o","v","e","r","v","i","e","w">>, person |-> name,
                         source |-> <<"p","r","o","f","e","s","s","i","o","n","a","l","_","s","u","m","m","a","r","y">>]] >>
  ELSE <<>>

\* "Present" in duration or "present" in duration.lower()
IsCurrent(duration) == Contains(duration, <<"P","r","e","s","e","n","t">>) \/ Contains(StrLower(duration), <<"p","r","e","s","e","n","t">>)
\* duration.split(' - ')[0]
BeforeDash(duration) ==
  IF Contains(duration, <<" ","-"," ">>) THEN Slice(duration, 0, StrFind(duration, <<" ","-"," ">>)) ELSE duration

ExperienceText(name, company_name, position, duration, location, company_desc, achievements, technologies) ==
  <<"W","o","r","k"," ","E","x","p","e","r","i","e","n","c","e"," ","a","n","d"," ","E","m","p","l","o","y","m","e","n","t"," ","H","i","s","t","o","r","y",":","\n","C","o","m","p","a","n","y",":"," ">> \o company_name \o <<"\n","E","m","p","l","o","y","e","r",":"," ">> \o company_name
    \o <<"\n","P","o","s","i","t","i","o","n",":"," ">> \o position \o <<"\n","J","o","b"," ","T","i","t","l","e",":"," ">> \o position \o <<"\n","D","u","r","a","t","i","o","n",":"," ">> \o duration
    \o <<"\n","E","m","p","l","o","y","e","e",":"," ">> \o name
    \o When(location # <<>>, <<"\n","L","o","c","a","t","i","o","n",":"," ">> \o location)
    \o When(company_desc # <<>>, <<"\n","\n","C","o","m","p","a","n","y"," ","D","e","s","c","r","i","p","t","i","o","n",":"," ">> \o company_desc)
    \o When(IsCurrent(duration),
            <<"\n","\n","C","U","R","R","E","N","T"," ","E","M","P","L","O","Y","M","E","N","T"," ","S","T","A","T","U","S",":"," ">> \o name \o <<" ","i","s"," ","c","u","r","r","e","n","t","l","y"," ","w","o","r","k","i","n","g"," ","a","t"," ">> \o company_name
              \o <<" ","a","s"," ","a"," ">> \o position \o <<"."," ","T","h","i","s"," ","i","s"," ","h","i","s"," ","c","u","r","r","e","n","t"," ","j","o","b"," ","a","n","d"," ","p","r","e","s","e","n","t"," ","e","m","p","l","o","y","e","r",".">>)
    \o When(achievements # <<>>, <<"\n","\n","K","e","y"," ","A","c","h","i","e","v","e","m","e","n","t","s"," ","a","n","d"," ","R","e","s","p","o","n","s","i","b","i","l","i","t","i","e","s",":">> \o Bulleted(achievements))
    \o When(technologies # <<>>, <<"\n","\n","T","e","c","h","n","o","l","o","g","i","e","s"," ","U","s","e","d",":"," ">> \o Join(technologies, <<","," ">>))
    \o (IF IsCurrent(duration)
        THEN <<"\n","\n">> \o name \o <<" ","i","s"," ","c","u","r","r","e","n","t","l","y"," ","e","m","p","l","o","y","e","d"," ","a","t"," ">> \o company_name \o <<" ","c","o","m","p","a","n","y"," ","a","s"," ","a"," ">>
               \o position \o <<" ","s","i","n","c","e"," ">> \o BeforeDash(duration)
               \o <<"."," ","T","h","i","s"," ","i","s"," ","h","i","s"," ","c","u","r","r","e","n","t"," ","p","o","s","i","t","i","o","n"," ","a","n","d"," ","p","r","e","s","e","n","t"," ","j","o","b",".">>
        ELSE <<"\n","\n">> \o name \o <<" ","w","o","r","k","e","d"," ","a","t"," ">> \o company_name \o <<" ","c","o","m","p","a","n","y"," ","a","s"," ","a"," ">> \o position
               \o <<" ">> \o duration \o <<"."," ","T","h","i","s"," ","e","m","p","l","o","y","m","e","n","t"," ","e","x","p","e","r","i","e","n","c","e"," ","s","h","o","w","s"," ">> \o name
               \o <<" ","h","a","s"," ","p","r","o","f","e","s","s","i","o","n","a","l"," ","w","o","r","k"," ","e","x","p","e","r","i","e","n","c","e"," ","a","t"," ">> \o company_name \o <<".">>)

\* the chunk of a company when a missing company name is read as ''
JsonCompanyChunk_blank(exp, name) ==
  Only({[text |-> ExperienceText(name, company_name, position, duration, Get(exp, "location", <<>>),
                                 Get(exp, "company_description", <<>>), Get(exp, "achievements", <<>>),
                                 Get(exp, "technologies", <<>>)),
         metadata |-> [section |-> <<"e","x","p","e","r","i","e","n","c","e">>, type |-> <<"c","o","m","p","a","n","y">>, company_name |-> company_name,
                       position |-> position, duration |-> duration, person |-> name,
                       source |-> <<"w","o","r","k","_","e","x","p","e","r","i","e","n","c","e">>]] :
          company_name \in {Get(exp, "company", <<>>)},
          position \in {Get(exp, "position", <<"U","n","k","n","o","w","n"," ","P","o","s","i","t","i","o","n">>)},
          duration \in {Get(exp, "duration", <<"U","n","k","n","o","w","n"," ","D","u","r","a","t","i","o","n">>)}})

JsonCompanyChunk(exp, name) ==
  Only({[text |-> ExperienceText(name, company_name, position, duration, Get(exp, "location", <<>>),
                                 Get(exp, "company_description", <<>>), Get(exp, "achievements", <<>>),
                                 Get(exp, "technologies", <<>>)),
         metadata |-> [section |-> <<"e","x","p","e","r","i","e","n","c","e">>, type |-> <<"c","o","m","p","a","n","y">>, company_name |-> company_name,
                       position |-> position, duration |-> duration, person |-> name,
                       source |-> <<"w","o","r","k","_","e","x","p","e","r","i","e","n","c","e">>]] :
          company_name \in {Get(exp, "company", <<"U","n","k","n","o","w","n"," ","C","o","m","p","a","n","y">>)},
          position \in {Get(exp, "position", <<"U","n","k","n","o","w","n"," ","P","o","s","i","t","i","o","n">>)},
          duration \in {Get(exp, "duration", <<"U","n","k","n","o","w","n"," ","D","u","r","a","t","i","o","n">>)}})

JsonEducationChunk(edu, name) ==
  Only({[text |-> <<"E","d","u","c","a","t","i","o","n"," ","B","a","c","k","g","r","o","u","n","d",":","\n","I","n","s","t","i","t","u","t","i","o","n",":"," ">> \o institution \o <<"\n","D","e","g","r","e","e",":"," ">> \o degree
                    \o When(Get(edu, "major", <<>>) # <<>>, <<"\n","M","a","j","o","r",":"," ">> \o Get(edu, "major", <<>>))
                    \o <<"\n","D","u","r","a","t","i","o","n",":"," ">> \o duration
                    \o When(Get(edu, "location", <<>>) # <<>>, <<"\n","L","o","c","a","t","i","o","n",":"," ">> \o Get(edu, "location", <<>>))
                    \o When(Get(edu, "details", <<>>) # <<>>, <<"\n","\n","D","e","t","a","i","l","s",":"," ">> \o Get(edu, "details", <<>>))
                    \o <<"\n","\n">> \o name \o <<" ","s","t","u","d","i","e","d"," ","a","t"," ">> \o institution \o <<" ","a","n","d"," ","e","a","r","n","e","d"," ","a"," ">> \o degree \o <<".">>,
         metadata |-> [section |-> <<"e","d","u","c","a","t","i","o","n">>, type |-> <<"a","c","a","d","e","m","i","c">>, institution |-> institution,
                       degree |-> degree, duration |-> duration, person |-> name,
                       source |-> <<"e","d","u","c","a","t","i","o","n">>]] :
          institution \in {Get(edu, "institution", <<"U","n","k","n","o","w","n"," ","I","n","s","t","i","t","u","t","i","o","n">>)},
          degree \in {Get(edu, "degree", <<"U","n","k","n","o","w","n"," ","D","e","g","r","e","e">>)},
          duration \in {Get(edu, "duration", <<"U","n","k","n","o","w","n"," ","D","u","r","a","t","i","o","n">>)}})

\* A value whose type the code tests is kept with its type: [kind, value], kind one of
\* "list", "dict", "str".  technical_skills.items() is the sequence of the [key, value]
\* pairs of the dict, in the order of the file.
IsInstance(v, kind) == v.kind = kind

GroupChunk(skill_group, category_name, name) ==
  IF ~IsInstance(skill_group, "dict") THEN <<>>
  ELSE Only({IF skills # <<>>
             THEN << [text |-> <<"T","e","c","h","n","i","c","a","l"," ","S","k","i","l","l","s"," ","-"," ">> \o group_name \o <<":","\n">> \o name
                                 \o <<" ","i","s"," ","p","r","o","f","i","c","i","e","n","t"," ","i","n",":"," ">> \o Join(skills, <<","," ">>),
                      metadata |-> [section |-> <<"s","k","i","l","l","s">>, type |-> <<"t","e","c","h","n","i","c","a","l","_","s","k","i","l","l","s">>,
                                    category |-> group_name, person |-> name,
                                    source |-> <<"t","e","c","h","n","i","c","a","l","_","s","k","i","l","l","s">>]] >>
             ELSE <<>> :
               group_name \in {Get(skill_group.value, "category", category_name)},
               skills \in {Get(skill_group.value, "skills", <<>>)}})

CategoryChunks(item, name) ==
  IF ~IsInstance(item.value, "list") THEN <<>>
  ELSE Concat([i \in 1..Len(item.value.value) |-> GroupChunk(item.value.value[i], item.key, name)])

JsonSkillsChunks(items, name) ==
  Concat([i \in 1..Len(items) |-> CategoryChunks(items[i], name)])

JsonProjectChunk(project, name) ==
  Only({[text |-> <<"P","r","o","j","e","c","t",":"," ">> \o project_name \o <<"\n","T","y","p","e",":"," ">> \o project_type
                    \o <<"\n","D","u","r","a","t","i","o","n",":"," ">> \o Get(project, "duration", <<"U","n","k","n","o","w","n"," ","D","u","r","a","t","i","o","n">>)
                    \o <<"\n","\n","D","e","s","c","r","i","p","t","i","o","n",":"," ">> \o Get(project, "description", <<>>)
                    \o When(Get(project, "key_features", <<>>) # <<>>,
                            <<"\n","\n","K","e","y"," ","F","e","a","t","u","r","e","s",":">> \o Bulleted(Get(project, "key_features", <<>>)))
                    \o When(Get(project, "technologies", <<>>) # <<>>,
                            <<"\n","\n","T","e","c","h","n","o","l","o","g","i","e","s",":"," ">> \o Join(Get(project, "technologies", <<>>), <<","," ">>))
                    \o When(Get(project, "achievement", <<>>) # <<>>,
                            <<"\n","\n","A","c","h","i","e","v","e","m","e","n","t",":"," ">> \o Get(project, "achievement", <<>>))
                    \o When(Get(project, "impact", <<>>) # <<>>,
                            <<"\n","\n","I","m","p","a","c","t",":"," ">> \o Get(project, "impact", <<>>)),
         metadata |-> [section |-> <<"p","r","o","j","e","c","t","s">>, type |-> <<"p","r","o","j","e","c","t">>, project_name |-> project_name,
                       project_type |-> project_type, person |-> name, source |-> <<"p","r","o","j","e","c","t","s">>]] :
          project_name \in {Get(project, "name", <<"U","n","k","n","o","w","n"," ","P","r","o","j","e","c","t">>)},
          project_type \in {Get(project, "type", <<"P","r","o","j","e","c","t">>)}})

\* the lines one certification adds to cert_text
CertEntry(cert) ==
  <<NL, Bullet, " ">> \o Get(cert, "name", <<"U","n","k","n","o","w","n"," ","C","e","r","t","i","f","i","c","a","t","i","o","n">>) \o <<" ","-"," ">>
    \o Get(cert, "issuer", <<"U","n","k","n","o","w","n"," ","I","s","s","u","e","r">>)
    \o When(Get(cert, "validity", <<>>) # <<>>, <<" ","(","V","a","l","i","d",":"," ">> \o Get(cert, "validity", <<>>) \o <<")">>)
    \o When(Get(cert, "status", <<>>) # <<>>, <<" ","-"," ","S","t","a","t","u","s",":"," ">> \o Get(cert, "status", <<>>))
    \o When(Get(cert, "description", <<>>) # <<>>, <<"\n"," "," ">> \o Get(cert, "description", <<>>))
    \o When(Get(cert, "credlyUrl", <<>>) # <<>>, <<"\n"," ","C","r","e","d","l","y"," ","B","a","d","g","e"," ","U","R","L",":"," ">> \o Get(cert, "credlyUrl", <<>>))

JsonCertificationsChunk(certifications, name) ==
  IF certifications # <<>>
  THEN << [text |-> <<"C","e","r","t","i","f","i","c","a","t","i","o","n","s",":","\n">> \o name \o <<" ","h","o","l","d","s"," ","t","h","e"," ","f","o","l","l","o","w","i","n","g"," ","c","e","r","t","i","f","i","c","a","t","i","o","n","s",":","\n">>
                      \o Concat([i \in 1..Len(certifications) |-> CertEntry(certifications[i])]),
           metadata |-> [section |-> <<"c","e","r","t","i","f","i","c","a","t","i","o","n","s">>, type |-> <<"c","r","e","d","e","n","t","i","a","l","s">>, person |-> name,
                         source |-> <<"c","e","r","t","i","f","i","c","a","t","i","o","n","s">>]] >>
  ELSE <<>>

JsonInterestsChunk(interests, name) ==
  IF interests # <<>>
  THEN << [text |-> <<"P","e","r","s","o","n","a","l"," ","I","n","t","e","r","e","s","t","s",":","\n">> \o name \o <<" ","i","s"," ","i","n","t","e","r","e","s","t","e","d"," ","i","n",":"," ">> \o Join(interests, <<","," ">>),
           metadata |-> [section |-> <<"i","n","t","e","r","e","s","t","s">>, type |-> <<"h","o","b","b","i","e","s">>, person |-> name,
                         source |-> <<"i","n","t","e","r","e","s","t","s">>]] >>
  ELSE <<>>

\* the chunks of the sections after the summary
JsonSectionChunks(resume_data, name) ==
  Only({[i \in 1..Len(work_experience) |-> JsonCompanyChunk(work_experience[i], name)]
          \o [i \in 1..Len(education) |-> JsonEducationChunk(education[i], name)]
          \o JsonSkillsChunks(Get(resume_data, "technical_skills", <<>>), name)
          \o [i \in 1..Len(projects) |-> JsonProjectChunk(projects[i], name)]
          \o JsonCertificationsChunk(Get(resume_data, "certifications", <<>>), name)
          \o JsonInterestsChunk(Get(resume_data, "interests", <<>>), name) :
          work_experience \in {Get(resume_data, "work_experience", <<>>)},
          education \in {Get(resume_data, "education", <<>>)},
          projects \in {Get(resume_data, "projects", <<>>)}})

create_json_chunks(resume_data) ==
  Only({JsonPersonalChunk(personal, name) \o JsonSummaryChunk(resume_data, name)
          \o JsonSectionChunks(resume_data, name) :
          personal \in {Get(resume_data, "personal_info", EmptyDict)},
          name \in {Get(Get(resume_data, "personal_info", EmptyDict), "name", <<"U","n","k","n","o","w","n">>)}})

(***************************************************************************)
(* The collaborators.  env tells how each of them behaves while one        *)
(* handler runs:                                                           *)
(*   source      "up": the file is read; "down": reading it raises         *)
(*   embedding   "up"; "down": the request raises RequestException or its  *)
(*               status is not 200 (the model cannot be loaded); "flaky":  *)
(*               the first request of the handler is answered, the later   *)
(*               ones are not                                              *)
(*   store       "up"; "strict": as up, and add refuses empty lists with a *)
(*               ValueError, as chromadb does from some version on;        *)
(*               "down": every call raises; "add_fails": the collection is *)
(*               deleted and created, add raises                           *)
(*   generation  "up"; "error": the status is not 200; "down": the request *)
(*               raises RequestException                                   *)
(* stored is the list of the items of the collection resume_knowledge.     *)
(***************************************************************************)
\* the vector of a text: only the text it stands for is kept
Embedding(t) == [of |-> t]

\* OllamaEmbeddings.encode, served the number of requests the service answered before
encode(texts, embedding, served) ==
  IF texts = <<>> THEN Return(<<>>)
  ELSE IF embedding = "up" \/ (embedding = "flaky" /\ served + Len(texts) <= 1)
       THEN Return([i \in 1..Len(texts) |-> Embedding(texts[i])])
       ELSE Raise("Exception")

test_connection(embedding) ==
  Only({IF result.exc # "" THEN FALSE ELSE Len(result.val) > 0 :
          result \in {encode(<<<<"t","e","s","t">>>>, embedding, 0)}})

\* what a handler leaves: what it gives its caller, and the collection
Outcome(result, stored) == [out |-> result, collection |-> stored]

\* documents, metadatas and ids as collection.add stores them
Items(chunks, prefix) ==
  [i \in 1..Len(chunks) |->
     [document |-> chunks[i].text, metadata |-> chunks[i].metadata, id |-> prefix \o IntStr(i - 1)]]

\* from chromadb.PersistentClient to collection.add; loaded says how many requests the
\* embedding model answered before
Store(chunks, prefix, env, stored, loaded) ==
  IF env.store = "down" THEN Outcome(Raise("Exception"), stored)
  ELSE IF encode([i \in 1..Len(chunks) |-> chunks[i].text], env.embedding, loaded).exc # ""
       THEN Outcome(Raise("Exception"), <<>>)
  ELSE IF env.store = "add_fails" THEN Outcome(Raise("Exception"), <<>>)
  ELSE IF chunks = <<>> /\ env.store = "strict" THEN Outcome(Raise("ValueError"), <<>>)
  ELSE Outcome(Return(TRUE), Items(chunks, prefix))

ingest_json_resume(resume_data, env, stored) ==
  IF env.source = "down" THEN Outcome(Return(FALSE), stored)
  ELSE IF ~test_connection(env.embedding) THEN Outcome(Return(FALSE), stored)
  ELSE Store(create_json_chunks(resume_data), <<"j","s","o","n","_","c","h","u","n","k","_">>, env, stored, 1)

\* UniversalResumeParser.extract_text_from_pdf
extract_text_from_pdf(t, env) == IF env.source = "up" THEN t ELSE <<>>

ingest_universal_resume(t, n, seed, env, stored) ==
  Only({IF parsed_data.exc # "" THEN Outcome(parsed_data, stored)
        ELSE IF parsed_data.val = EmptyDict THEN Outcome(Return(FALSE), stored)
        ELSE IF env.embedding = "down" THEN Outcome(Raise("Exception"), stored)
        ELSE Store(create_universal_chunks(parsed_data.val), <<"u","n","i","v","e","r","s","a","l","_","c","h","u","n","k","_">>, env, stored, 1) :
          parsed_data \in {parse_resume(extract_text_from_pdf(t, env), n, seed)}})

(***************************************************************************)
(* main.py: the chat request                                               *)
(***************************************************************************)
MaxDocLen == 500
\* doc[:500] + "..." if len(doc) > 500 else doc
Truncated(doc) == IF Len(doc) > MaxDocLen THEN Slice(doc, 0, MaxDocLen) \o <<".",".",".">> ELSE doc

\* collection.query: the n_results nearest documents; which documents are the nearest is
\* for the embeddings to say, here the items that follow the first `nearest` ones
Query(stored, n_results, nearest) ==
  [i \in 1..Min(n_results, Len(stored)) |-> stored[((nearest + i - 1) % Len(stored)) + 1]]

NoContext == <<"N","o"," ","r","e","l","e","v","a","n","t"," ","c","o","n","t","e","x","t"," ","f","o","u","n","d",".">>

get_relevant_context(q, top_k, env, stored, nearest) ==
  IF encode(<<q>>, env.embedding, 0).exc # "" THEN Raise("Exception")
  ELSE IF env.store = "down" THEN Raise("Exception")
  ELSE Only({IF results = <<>> THEN Return([context |-> NoContext, sources |-> <<>>])
             ELSE Return([context |-> Join([i \in 1..Len(results) |-> Truncated(results[i].document)], <<"\n","\n">>),
                          sources |-> [i \in 1..Len(results) |-> Get(results[i].metadata, "source", <<"R","e","s","u","m","e">>)]]) :
               results \in {Query(stored, top_k, nearest)}})

ProcessingTrouble == <<"S","o","r","r","y",","," ","I","'","m"," ","h","a","v","i","n","g"," ","t","r","o","u","b","l","e"," ","p","r","o","c","e","s","s","i","n","g"," ","y","o","u","r"," ","r","e","q","u","e","s","t"," ","r","i","g","h","t"," ","n","o","w",".">>
ConnectingTrouble == <<"S","o","r","r","y",","," ","I","'","m"," ","h","a","v","i","n","g"," ","t","r","o","u","b","l","e"," ","c","o","n","n","e","c","t","i","n","g"," ","t","o"," ","t","h","e"," ","A","I"," ","s","e","r","v","i","c","e",".">>
\* query_ollama; response is what the generation service answers the prompt with
query_ollama(response, env) ==
  IF env.generation = "up" THEN Strip(response)
  ELSE IF env.generation = "error" THEN ProcessingTrouble
  ELSE ConnectingTrouble

greetings == << <<"h","i">>, <<"h","e","l","l","o">>, <<"h","e","y">>, <<"h","o","w","d","y">> >>
Greeting ==
  <<"H","e","l","l","o","!"," ","I","'","m"," ","N","i","r","w","a","n"," ","R","a","j"," ","N","a","g","p","a","l","'","s"," ","r","e","s","u","m","e"," ","a","s","s","i","s","t","a","n","t","."," ","I"," ","c","a","n"," ","h","e","l","p"," ","y","o","u"," ","l","e","a","r","n"," ","a","b","o","u","t"," ","h","i","s"," ","w","o","r","k"," ","e","x","p","e","r","i","e","n","c","e",","," ","s","k","i","l","l","s",","," ","e","d","u","c","a","t","i","o","n",","," ","p","r","o","j","e","c","t","s",","," ","a","n","d"," ","c","e","r","t","i","f","i","c","a","t","i","o","n","s","."," ","W","h","a","t"," ","w","o","u","l","d"," ","y","o","u"," ","l","i","k","e"," ","t","o"," ","k","n","o","w","?">>
NoInformation ==
  <<"I"," ","d","o","n","'","t"," ","h","a","v","e"," ","i","n","f","o","r","m","a","t","i","o","n"," ","a","b","o","u","t"," ","t","h","a","t"," ","i","n"," ","N","i","r","w","a","n","'","s"," ","r","e","s","u","m","e","."," ","P","l","e","a","s","e"," ","a","s","k"," ","a","b","o","u","t"," ","h","i","s"," ","e","x","p","e","r","i","e","n","c","e",","," ","s","k","i","l","l","s",","," ","e","d","u","c","a","t","i","o","n",","," ","o","r"," ","p","r","o","j","e","c","t","s",".">>
current_words == { <<"c","u","r","r","e","n","t">>, <<"c","u","r","r","e","n","t","l","y">>, <<"n","o","w">>, <<"p","r","e","s","e","n","t">> }
company_words == { <<"c","o","m","p","a","n","y">>, <<"c","o","m","p","a","n","i","e","s">>, <<"w","o","r","k">>, <<"e","m","p","l","o","y","e","r">>, <<"e","x","p","e","r","i","e","n","c","e">> }
CurrentTopK == 6
CompanyTopK == 4
DefaultTopK == 2

\* s.rstrip(chars)
RECURSIVE RStrip(_, _)
RStrip(s, chars) ==
  IF s # <<>> /\ s[Len(s)] \in chars THEN RStrip(SubSeq(s, 1, Len(s) - 1), chars) ELSE s

TopK(q) ==
  IF ContainsAny(StrLower(q), current_words) THEN CurrentTopK
  ELSE IF ContainsAny(StrLower(q), company_words) THEN CompanyTopK
  ELSE DefaultTopK

ChatResponse(answer, sources) == Return([answer |-> answer, sources |-> sources])
\* raise HTTPException(status_code=500, detail="Internal server error")
HTTPException == Raise("HTTPException 500")

chat(request, env, stored, nearest, response) ==
  IF InList(RStrip(Strip(StrLower(request.question)), {"!", "?", "."}), greetings)
  THEN ChatResponse(Greeting, <<>>)
  ELSE Only({IF found.exc # "" THEN HTTPException
             ELSE IF found.val.context = <<>> \/ found.val.context = NoContext
                  THEN ChatResponse(NoInformation, <<>>)
             ELSE ChatResponse(query_ollama(response, env), found.val.sources) :
               found \in {get_relevant_context(request.question, TopK(request.question), env, stored, nearest)}})

(***************************************************************************)
(* The records handed to the chunk builders.  Each family starts from a    *)
(* record that holds every key the builder reads and takes away keys, at   *)
(* the top level and inside the entries, one level at a time.              *)
(***************************************************************************)
\* the record d with the keys of K alone
Restrict(d, K) == [k \in K |-> d[k]]
\* the records that hold some of the keys of d
Partial(d) == {Restrict(d, K) : K \in SUBSET (DOMAIN d)}

\* a record as parse_resume returns it
CurrentCompany == [name |-> <<"A","c","m","e"," ","L","t","d">>, position |-> <<"D","e","v","e","l","o","p","e","r">>, dates |-> <<"0","1","/","2","0","2","0"," ","-"," ","P","r","e","s","e","n","t">>]
PastCompany == [name |-> <<"N","e","t","w","o","r","k"," ","S","y","s","t","e","m","s"," ","L","t","d">>, position |-> <<"E","n","g","i","n","e","e","r">>, dates |-> <<"0","2","/","2","0","1","6"," ","-"," ","1","1","/","2","0","1","9">>]
EarlierCompany == [name |-> <<"I","n","i","t","e","c","h"," ","I","n","c">>, position |-> <<"A","n","a","l","y","s","t">>, dates |-> <<"2","0","1","2"," ","-"," ","2","0","1","5">>]
ParsedEducation == [degree |-> <<"B","a","c","h","e","l","o","r"," ","o","f"," ","A","r","t","s">>, institution |-> <<"M","o","n","a","s","h"," ","U","n","i","v","e","r","s","i","t","y">>, dates |-> <<"2","0","0","8"," ","-"," ","2","0","1","1">>, location |-> <<"M","e","l","b","o","u","r","n","e",","," ","V","I","C">>]
ParsedReference == [name |-> <<"J","a","n","e"," ","D","o","e">>, phone |-> <<"5","5","5","-","1","2","3","-","4","5","6","7">>, email |-> <<"j","a","n","e","@","e","x","a","m","p","l","e",".","o","r","g">>]
FullPersonal == [name |-> <<"J","o","h","n"," ","S","m","i","t","h">>, email |-> <<"j","o","h","n","@","e","x","a","m","p","l","e",".","o","r","g">>, phone |-> <<"5","5","5","-","9","8","7","-","6","5","4","3">>, location |-> <<"P","e","r","t","h",","," ","W","A">>]
FullParsed ==
  [personal |-> FullPersonal,
   experience |-> [companies |-> <<CurrentCompany, PastCompany, EarlierCompany>>],
   skills |-> <<<<"P","y","t","h","o","n">>, <<"G","o">>>>,
   education |-> <<ParsedEducation>>,
   certifications |-> <<<<"A","W","S"," ","C","e","r","t","i","f","i","e","d"," ","D","e","v","e","l","o","p","e","r">>>>,
   references |-> <<ParsedReference>>,
   interests |-> <<<<"H","i","k","i","n","g">>>>]

\* lists of skills and of certifications as a caller may hand them over: entries of the
\* builder's false-positive list, a one-letter skill, certifications in capitals, short ones
SkillLists ==
  { <<<<"P","y","t","h","o","n">>, <<"A","C","T">>, <<"R">>, <<"S","K","I","L","L","S">>, <<"G","o">>>>, <<<<"W","O","R","K">>, <<"P","W","A">>, <<"N","F","T","s">>, <<"S","P","A","s">>>>,
    <<<<"E","X","P","E","R","I","E","N","C","E">>, <<"D","o","c","k","e","r">>, <<"M","c","P","h","a","i","l">>>>, <<<<"S","K","I","L","L","S">>, <<"I","N","T","E","R","E","S","T","S">>>> }
CertLists ==
  { <<<<"A","W","S"," ","C","e","r","t","i","f","i","e","d"," ","D","e","v","e","l","o","p","e","r">>, <<"A","W","S"," ","C","E","R","T","I","F","I","C","A","T","E"," ","P","R","O","G","R","A","M">>, <<"C","e","r","t","i","f","i","e","d">>, <<"C","E","R","T","I","F","I","E","D"," ","D","E","V","E","L","O","P","E","R">>>>,
    <<<<"A"," ","C","e","r","t","i","f","i","e","d">>, <<"C","e","r","t","i","f","i","e","d">>>>, <<<<"C","E","R","T","I","F","I","E","D">>>> }
ListedRecords == {[FullParsed EXCEPT !.skills = s, !.certifications = c] : s \in SkillLists, c \in CertLists}

ParsedRecords ==
  Partial(FullParsed)
    \cup ListedRecords
    \cup {[FullParsed EXCEPT !.personal = p] : p \in Partial(FullPersonal)}
    \cup {[FullParsed EXCEPT !.experience = e] : e \in Partial(FullParsed.experience)}
    \cup {[FullParsed EXCEPT !.experience = [companies |-> <<c, EarlierCompany>>]] : c \in Partial(CurrentCompany)}
    \cup {[FullParsed EXCEPT !.experience = [companies |-> <<EarlierCompany, c>>]] : c \in Partial(PastCompany)}
    \cup {[FullParsed EXCEPT !.education = <<e>>] : e \in Partial(ParsedEducation)}
    \cup {[FullParsed EXCEPT !.references = <<r>>] : r \in Partial(ParsedReference)}

\* a record as the JSON file of ingest_json_resume holds it
JsonPersonal ==
  [name |-> <<"J","o","h","n"," ","S","m","i","t","h">>, title |-> <<"E","n","g","i","n","e","e","r">>, email |-> <<"j","o","h","n","@","e","x","a","m","p","l","e",".","o","r","g">>, location |-> <<"P","e","r","t","h">>,
   website |-> <<"s","m","i","t","h",".","e","x","a","m","p","l","e">>, linkedin |-> <<"i","n","/","j","o","h","n">>, github |-> <<"g","h","/","j","o","h","n">>]
JsonSummary == [title |-> <<"E","n","g","i","n","e","e","r">>, description |-> <<"B","u","i","l","d","s"," ","t","h","i","n","g","s",".">>]
CurrentJob ==
  [company |-> <<"A","c","m","e"," ","L","t","d">>, position |-> <<"D","e","v","e","l","o","p","e","r">>, duration |-> <<"J","a","n"," ","2","0","2","0"," ","-"," ","P","r","e","s","e","n","t">>,
   location |-> <<"P","e","r","t","h">>, company_description |-> <<"M","a","k","e","s"," ","a","n","v","i","l","s",".">>,
   achievements |-> <<<<"S","h","i","p","p","e","d"," ","i","t">>>>, technologies |-> <<<<"G","o">>, <<"S","Q","L">>>>]
PastJob ==
  [company |-> <<"N","e","t","w","o","r","k"," ","S","y","s","t","e","m","s"," ","L","t","d">>, position |-> <<"E","n","g","i","n","e","e","r">>, duration |-> <<"2","0","1","6"," ","-"," ","2","0","1","9">>,
   location |-> <<"S","y","d","n","e","y">>, company_description |-> <<"R","u","n","s"," ","n","e","t","w","o","r","k","s",".">>,
   achievements |-> <<<<"K","e","p","t"," ","i","t"," ","u","p">>>>, technologies |-> <<<<"C">>>>]
JsonEducation ==
  [institution |-> <<"M","o","n","a","s","h"," ","U","n","i","v","e","r","s","i","t","y">>, degree |-> <<"B","a","c","h","e","l","o","r"," ","o","f"," ","A","r","t","s">>, major |-> <<"H","i","s","t","o","r","y">>,
   duration |-> <<"2","0","0","8"," ","-"," ","2","0","1","1">>, location |-> <<"M","e","l","b","o","u","r","n","e">>, details |-> <<"W","i","t","h"," ","h","o","n","o","u","r","s">>]
SkillGroup == [category |-> <<"L","a","n","g","u","a","g","e","s">>, skills |-> <<<<"P","y","t","h","o","n">>, <<"G","o">>>>]
JsonProject ==
  [name |-> <<"A","n","v","i","l">>, type |-> <<"T","o","o","l">>, duration |-> <<"2","0","2","1">>, description |-> <<"A"," ","f","o","r","g","e",".">>,
   key_features |-> <<<<"F","a","s","t">>>>, technologies |-> <<<<"G","o">>>>, achievement |-> <<"U","s","e","d"," ","d","a","i","l","y">>,
   impact |-> <<"L","e","s","s"," ","w","a","s","t","e">>]
JsonCertification ==
  [name |-> <<"A","W","S"," ","D","e","v","e","l","o","p","e","r">>, issuer |-> <<"A","W","S">>, validity |-> <<"2","0","2","7">>, status |-> <<"A","c","t","i","v","e">>,
   description |-> <<"C","l","o","u","d">>, credlyUrl |-> <<"c","r","e","d","l","y",".","e","x","a","m","p","l","e","/","1">>]
\* technical_skills with the one category "core" that holds the groups
SkillsOf(groups) ==
  << [key |-> <<"c","o","r","e">>, value |-> [kind |-> "list", value |-> [i \in 1..Len(groups) |-> [kind |-> "dict", value |-> groups[i]]]]] >>
FullJson ==
  [personal_info |-> JsonPersonal,
   professional_summary |-> JsonSummary,
   work_experience |-> <<CurrentJob, PastJob>>,
   education |-> <<JsonEducation>>,
   technical_skills |-> SkillsOf(<<SkillGroup>>),
   projects |-> <<JsonProject>>,
   certifications |-> <<JsonCertification>>,
   interests |-> <<<<"H","i","k","i","n","g">>>>]

JsonRecords ==
  Partial(FullJson)
    \cup {[FullJson EXCEPT !.personal_info = p] : p \in Partial(JsonPersonal)}
    \cup {[FullJson EXCEPT !.professional_summary = s] : s \in Partial(JsonSummary)}
    \cup {[FullJson EXCEPT !.work_experience = <<e, PastJob>>] : e \in Partial(CurrentJob)}
    \cup {[FullJson EXCEPT !.work_experience = <<CurrentJob, e>>] : e \in Partial(PastJob)}
    \cup {[FullJson EXCEPT !.education = <<e>>] : e \in Partial(JsonEducation)}
    \cup {[FullJson EXCEPT !.technical_skills = SkillsOf(<<g>>)] : g \in Partial(SkillGroup)}
    \cup {[FullJson EXCEPT !.projects = <<p>>] : p \in Partial(JsonProject)}
    \cup {[FullJson EXCEPT !.certifications = <<c>>] : c \in Partial(JsonCertification)}

(***************************************************************************)
(* The parser at work.  A process holds one UniversalResumeParser; text is *)
(* the text pdfminer gave for the document at hand, nlp the NER model the  *)
(* constructor loaded (with the entities it finds in this text), hash_seed *)
(* the salt of the process's string hashes, op the last call made and out  *)
(* what that call gave its caller.  json_data is the record json.load gave *)
(* ingest_json_resume, parsed a record handed to the chunk builder of      *)
(* universal_ingest, chat_request a chat request, services how the file    *)
(* read, the embedding service, the vector store and the answer-generation *)
(* service behave, and collection the items of the stored collection       *)
(* resume_knowledge.                                                       *)
(***************************************************************************)
VARIABLES text, nlp, hash_seed, op, out, json_data, parsed, chat_request, services, collection
vars == <<text, nlp, hash_seed, op, out, json_data, parsed, chat_request, services, collection>>
\* what a call leaves alone
inputs == <<text, nlp, hash_seed, json_data, parsed, chat_request, services>>

\* the number of salts a process may draw from
HashSeeds == 2

ResumeText ==
  <<"J","o","h","n"," ","S","m","i","t","h","\n","B","r","i","s","b","a","n","e",","," ","Q","L","D","\n","M","o","b","i","l","e",":"," ","5","5","5","-","1","2","3","-","4","5","6","7","\n","j","o","h","n",".","s","m","i","t","h","@","g","m","a","i","l",".","c","o","m","\n","D","e","v","e","l","o","p","e","r","\n","A","c","m","e"," ","L","t","d","\n","0","1","/","2","0","2","0"," ","-"," ","P","r","e","s","e","n","t","\n","S","K","I","L","L","S","\n","P","y","t","h","o","n",","," ","G","o","\n","I","N","T","E","R","E","S","T","S","\n","h","i","k","i","n","g","\n","C","o","n","t","a","c","t",":"," ","D","r","."," ","J","a","n","e"," ","D","o","e"," ","5","5","5","-","9","8","7","-","6","5","4","3">>
DatedThenLonger == <<"D","e","v","e","l","o","p","e","r","\n","A","c","m","e"," ","L","t","d","\n","0","1","/","2","0","2","0"," ","-"," ","P","r","e","s","e","n","t","\n","E","n","g","i","n","e","e","r","\n","A","c","m","e"," ","L","t","d"," ","A","u","s","t","r","a","l","i","a","\n">>
LongerThenDated == <<"E","n","g","i","n","e","e","r","\n","A","c","m","e"," ","L","t","d"," ","A","u","s","t","r","a","l","i","a","\n","D","e","v","e","l","o","p","e","r","\n","A","c","m","e"," ","L","t","d","\n","0","1","/","2","0","2","0"," ","-"," ","P","r","e","s","e","n","t","\n">>
UndatedThenDated == <<"D","e","v","e","l","o","p","e","r","\n","A","c","m","e"," ","L","t","d","\n","E","n","g","i","n","e","e","r","\n","A","c","m","e"," ","L","t","d","\n","0","1","/","2","0","2","0"," ","-"," ","P","r","e","s","e","n","t","\n">>
TwoInOne == <<"D","e","v","e","l","o","p","e","r","\n","F","o","o"," ","L","t","d","\n","E","n","g","i","n","e","e","r","\n","B","a","r"," ","L","t","d","\n","D","e","v","e","l","o","p","e","r","\n","F","o","o"," ","L","t","d"," ","B","a","r"," ","L","t","d","\n">>
CompanyTexts == { DatedThenLonger, LongerThenDated, UndatedThenDated, TwoInOne }

SkillsFirstLine == <<"S","K","I","L","L","S","\n","P","y","t","h","o","n",","," ","D","o","c","k","e","r","\n">>
SkillsSecondLine == <<"S","K","I","L","L","S","\n","J","a","v","a",","," ","G","o","\n","P","y","t","h","o","n",","," ","D","o","c","k","e","r","\n">>
SkillsInProse == <<"M","y"," ","s","k","i","l","l","s"," ","i","n","c","l","u","d","e"," ","l","e","a","d","e","r","s","h","i","p",".","\n","S","K","I","L","L","S","\n","P","y","t","h","o","n",","," ","D","o","c","k","e","r","\n">>
SkillsTexts == { SkillsFirstLine, SkillsSecondLine, SkillsInProse }

DegreeText == <<"E","D","U","C","A","T","I","O","N","\n","B","a","c","h","e","l","o","r"," ","o","f"," ","C","o","m","p","u","t","e","r"," ","S","c","i","e","n","c","e","\n","U","n","i","v","e","r","s","i","t","y"," ","o","f"," ","Q","u","e","e","n","s","l","a","n","d","\n","0","2","/","2","0","1","6"," ","-"," ","1","1","/","2","0","1","9">>
CertText == <<"C","E","R","T","I","F","I","C","A","T","I","O","N","S","\n","A","W","S"," ","C","e","r","t","i","f","i","e","d"," ","D","e","v","e","l","o","p","e","r","\n","(","2","0","2","0"," ","-"," ","2","0","2","3",")","\n">>

\* prose: no heading, no address, no number, no company suffix
QuietProse == <<"i","t"," ","w","a","s"," ","a"," ","q","u","i","e","t"," ","d","a","y","\n","n","o","t","h","i","n","g"," ","e","l","s","e"," ","h","a","p","p","e","n","e","d">>
GoProse == <<"w","e"," ","w","i","l","l"," ","g","o"," ","t","h","e","r","e"," ","w","i","t","h"," ","m","e",".","\n","n","o","t","h","i","n","g"," ","e","l","s","e">>
RainProse == <<"r","a","i","n","e","d","."," ","a","g","a","i","n",".","\n","i","t"," ","w","a","s"," ","f","i","n","e">>
ProseTexts == { QuietProse, GoProse, RainProse }

Documents ==
  { <<>>, ResumeText, DegreeText, CertText } \cup CompanyTexts \cup SkillsTexts \cup ProseTexts

NoModel == [loaded |-> FALSE, ents |-> <<>>]
\* the entities of a loaded model: none, or a person
Models ==
  { NoModel,
    [loaded |-> TRUE, ents |-> << [label |-> "ORG", text |-> <<"A","c","m","e">>],
                                  [label |-> "PERSON", text |-> <<"J","o","h","n"," ","S","m","i","t","h">>] >>] }

\* every service answers
AllUp == [source |-> "up", embedding |-> "up", store |-> "up", generation |-> "up"]
\* no record, no question, no stored item
NoRequest ==
  /\ json_data = EmptyDict
  /\ parsed = EmptyDict
  /\ chat_request = [question |-> <<>>]
  /\ services = AllUp
  /\ collection = <<>>

Init ==
  /\ text \in Documents
  /\ nlp \in Models
  /\ hash_seed \in 0..(HashSeeds - 1)
  /\ op = "idle"
  /\ out = Return(<<>>)
  /\ NoRequest

\* a process makes one call on its document
Call(name, result) ==
  /\ op = "idle"
  /\ op' = name
  /\ out' = result
  /\ UNCHANGED <<inputs, collection>>

ExtractName == Call("extract_name", extract_name(text, nlp))
ExtractEmail == Call("extract_email", extract_email(text, nlp))
ExtractPhone == Call("extract_phone", extract_phone(text))
ExtractLocation == Call("extract_location", extract_location(text))
ExtractCompanies == Call("extract_companies", extract_companies(text, hash_seed))
ExtractSkills == Call("extract_skills_adaptive", extract_skills_adaptive(text, hash_seed))
ExtractEducation == Call("extract_education", extract_education(text))
ExtractCertifications == Call("extract_certifications", extract_certifications(text))
ExtractInterests == Call("extract_interests", extract_interests(text))
ExtractReferences == Call("extract_references", extract_references(text))
ParseResume == Call("parse_resume", parse_resume(text, nlp, hash_seed))

\* ingest_universal_resume hands the record parse_resume returned to the chunk builder,
\* unless it is empty
CreateUniversalChunks ==
  /\ op = "parse_resume"
  /\ out.exc = ""
  /\ out.val # EmptyDict
  /\ op' = "create_universal_chunks"
  /\ out' = Return(create_universal_chunks(out.val))
  /\ UNCHANGED <<inputs, collection>>

Next ==
  \/ ExtractName
  \/ ExtractEmail
  \/ ExtractPhone
  \/ ExtractLocation
  \/ ExtractCompanies
  \/ ExtractSkills
  \/ ExtractEducation
  \/ ExtractCertifications
  \/ ExtractInterests
  \/ ExtractReferences
  \/ ParseResume
  \/ CreateUniversalChunks

Spec == Init /\ [][Next]_vars

(***************************************************************************)
(* Documents for the scored fields: addresses, numbers and places with the *)
(* words the scores look for around them.                                  *)
(***************************************************************************)
\* the most filler lines between the two numbers of a document, and the most filler
\* phrases inside its reference sentence
FillerLines == 3
FillerPhrases == 3

FillerLine == <<"a","n","d"," ","s","o","m","e"," ","m","o","r","e"," ","w","o","r","d","s"," ","a","b","o","u","t"," ","n","o","t","h","i","n","g"," ","h","e","r","e",".","\n">>
FillerPhrase == <<" ","a","n","d"," ","s","o","m","e"," ","m","o","r","e"," ","w","o","r","d","s"," ","a","b","o","u","t"," ","n","o","t","h","i","n","g"," ","h","e","r","e">>
RECURSIVE Repeated(_, _)
Repeated(s, k) == IF k = 0 THEN <<>> ELSE s \o Repeated(s, k - 1)

PersonalAddress == <<"j","o","h","n",".","s","m","i","t","h","@","g","m","a","i","l",".","c","o","m">>
Addresses == << PersonalAddress, <<"h","r","@","c","o","m","p","a","n","y",".","c","o","m">>, <<"n","o","r","e","p","l","y","@","j","o","b","s",".","c","o","m">> >>
\* the words put before the personal address
AddressWords == { <<>>, <<"C","o","n","t","a","c","t",":"," ">>, <<"R","e","f","e","r","e","n","c","e"," ">> }
NameLines3 == { <<"J","o","h","n"," ","S","m","i","t","h","\n">>, <<"R","e","s","u","m","e"," ","o","f"," ","j","o","h","n","\n">> }
Orders3 == {p \in [1..3 -> 1..3] : \A i, j \in 1..3 : p[i] = p[j] => i = j}

EmailDoc(name_line, order, word) ==
  LET line(i) == (IF order[i] = 1 THEN word ELSE <<>>) \o Addresses[order[i]]
  IN  name_line \o line(1) \o <<NL>> \o line(2) \o <<NL>> \o line(3)
EmailTexts ==
  {EmailDoc(name_line, order, word) : name_line \in NameLines3, order \in Orders3, word \in AddressWords}

MobileNumber == <<"5","5","5","-","1","2","3","-","4","5","6","7">>
ReferenceNumber == <<"5","5","5","-","9","8","7","-","6","5","4","3">>
PhoneDoc(gap, inner) ==
  <<"M","o","b","i","l","e",":"," ">> \o MobileNumber \o <<NL>> \o Repeated(FillerLine, gap)
    \o <<"C","o","n","t","a","c","t",":"," ","D","r","."," ","J","a","n","e"," ","D","o","e">> \o Repeated(FillerPhrase, inner) \o <<" ">> \o ReferenceNumber
PhoneTexts == {PhoneDoc(gap, inner) : gap \in 0..FillerLines, inner \in 0..FillerPhrases}

\* one candidate of no positive score, one of a positive score, or no candidate at all
HrOnly == <<"w","r","i","t","e"," ","t","o"," ","h","r","@","c","o","m","p","a","n","y",".","c","o","m">>
ReferenceOnly == <<"C","o","n","t","a","c","t",":"," ","D","r","."," ","J","a","n","e"," ","D","o","e"," ","5","5","5","-","9","8","7","-","6","5","4","3">>
ShortNumber == <<"c","a","l","l"," ","1","2"," ","3","4","5"," ","6","7","8","9"," ","n","o","w">>
UnknownPlace == <<"H","e","l","l","o",","," ","W","o","r","l","d">>
FalsePlace == <<"P","e","r","t","h",","," ","G","a","t","e","w","a","y">>
KnownPlace == <<"B","r","i","s","b","a","n","e",","," ","Q","L","D">>
PlaceNearEmail == <<"e","m","a","i","l"," ","m","e"," ","f","r","o","m"," ","H","e","l","l","o",","," ","W","o","r","l","d">>
\* two places, two numbers and two addresses of equal score
TiedPlaces == <<"M","e","l","b","o","u","r","n","e",","," ","D","o","c","k","l","a","n","d","s","\n","P","e","r","t","h",","," ","Q","L","D">>
TiedNumbers == <<"c","a","l","l"," ","5","5","5","-","1","2","3","-","4","5","6","7"," ","o","r"," ","(","5","5","5",")"," ","9","8","7","-","6","5","4","3">>
TiedAddresses == <<"w","r","i","t","e"," ","t","o"," ","a","n","n","@","e","x","a","m","p","l","e",".","o","r","g"," ","o","r"," ","b","o","b","@","e","x","a","m","p","l","e",".","o","r","g">>
ScoredTexts ==
  { <<>>, <<"n","o","t","h","i","n","g"," ","t","o"," ","f","i","n","d"," ","h","e","r","e">>, HrOnly, ReferenceOnly, ShortNumber,
    UnknownPlace, FalsePlace, KnownPlace, PlaceNearEmail, <<"M","o","b","i","l","e",":"," ","5","5","5","-","1","2","3","-","4","5","6","7">>,
    TiedPlaces, TiedNumbers, TiedAddresses }

\* a name below header lines that do not qualify, blank lines between them; the most
\* header lines put the name beyond the lines extract_name reads
HeaderLines == 11
HeaderLine == <<"C","u","r","r","i","c","u","l","u","m"," ","r","e","s","u","m","e","\n","\n">>
NameBelow(k) == Repeated(HeaderLine, k) \o <<"J","a","n","e"," "," ","D","o","e","\n","s","o","m","e"," ","w","o","r","d","s"," ","h","e","r","e">>
NameTexts == {NameBelow(k) : k \in 0..HeaderLines}

ContactDocuments == EmailTexts \cup PhoneTexts \cup ScoredTexts \cup NameTexts

InitContact ==
  /\ text \in ContactDocuments
  /\ nlp \in Models
  /\ hash_seed \in 0..(HashSeeds - 1)
  /\ op = "idle"
  /\ out = Return(<<>>)
  /\ NoRequest

NextContact ==
  \/ ExtractName
  \/ ExtractEmail
  \/ ExtractPhone
  \/ ExtractLocation

SpecContact == InitContact /\ [][NextContact]_vars

(***************************************************************************)
(* The chunk builders on records of which keys are missing.                *)
(***************************************************************************)
InitChunks ==
  /\ text = <<>>
  /\ nlp = NoModel
  /\ hash_seed = 0
  /\ op = "idle"
  /\ out = Return(<<>>)
  /\ chat_request = [question |-> <<>>]
  /\ services = AllUp
  /\ collection = <<>>
  /\ \/ json_data \in JsonRecords /\ parsed = EmptyDict
     \/ json_data = EmptyDict /\ parsed \in ParsedRecords

CallJsonChunks == Call("create_json_chunks", Return(create_json_chunks(json_data)))
CallUniversalChunks == Call("create_universal_chunks", Return(create_universal_chunks(parsed)))

NextChunks ==
  \/ CallJsonChunks
  \/ CallUniversalChunks

SpecChunks == InitChunks /\ [][NextChunks]_vars

(***************************************************************************)
(* Ingestion and chat with collaborators that may fail.                    *)
(***************************************************************************)
ShortResume == <<"J","o","h","n"," ","S","m","i","t","h","\n","j","o","h","n",".","s","m","i","t","h","@","g","m","a","i","l",".","c","o","m","\n","D","e","v","e","l","o","p","e","r","\n","A","c","m","e"," ","L","t","d","\n","0","1","/","2","0","2","0"," ","-"," ","P","r","e","s","e","n","t","\n">>
ServiceTexts == { <<>>, ShortResume, QuietProse }
Questions ==
  { <<"H","e","l","l","o","!">>, <<"W","h","i","c","h"," ","s","k","i","l","l","s","?">>, <<"W","h","e","r","e"," ","d","i","d"," ","h","e"," ","w","o","r","k","?">>, <<"W","h","a","t"," ","i","s"," ","h","i","s"," ","c","u","r","r","e","n","t"," ","j","o","b","?">> }
\* what the generation service answers
Responses == { <<" ","H","e"," ","w","o","r","k","s"," ","a","t"," ","A","c","m","e"," ","L","t","d",".","\n">> }
Environments ==
  [source : {"up", "down"}, embedding : {"up", "down", "flaky"},
   store : {"up", "strict", "down", "add_fails"}, generation : {"up", "error", "down"}]

\* every environment with one question, and every question with every service up
InitService ==
  /\ \/ text \in ServiceTexts /\ json_data = FullJson
     \/ text = ShortResume /\ json_data = EmptyDict
  /\ \/ services \in Environments /\ chat_request = [question |-> <<"W","h","a","t"," ","i","s"," ","h","i","s"," ","c","u","r","r","e","n","t"," ","j","o","b","?">>]
     \/ services = AllUp /\ chat_request \in {[question |-> q] : q \in Questions}
  /\ nlp = NoModel
  /\ hash_seed = 0
  /\ op = "idle"
  /\ out = Return(<<>>)
  /\ parsed = EmptyDict
  /\ collection = <<>>

\* a handler ran: what it gave its caller and what it left in the store
Handled(name, outcome) ==
  /\ op' = name
  /\ out' = outcome.out
  /\ collection' = outcome.collection
  /\ UNCHANGED inputs

IngestJsonResume ==
  Handled("ingest_json_resume", ingest_json_resume(json_data, services, collection))

IngestUniversalResume ==
  Handled("ingest_universal_resume", ingest_universal_resume(text, nlp, hash_seed, services, collection))

Chat ==
  \E nearest \in 0..Max(0, Len(collection) - 1), response \in Responses :
     Handled("chat", Outcome(chat(chat_request, services, collection, nearest, response), collection))

NextService ==
  \/ IngestJsonResume
  \/ IngestUniversalResume
  \/ Chat

SpecService == InitService /\ [][NextService]_vars

(***************************************************************************)
(* Documents for the section scans: education, certifications, interests,  *)
(* skills and companies.                                                   *)
(***************************************************************************)
\* no education heading: the degrees come from the whole document
SameSubjectTwice == <<"B","a","c","h","e","l","o","r"," ","o","f"," ","S","c","i","e","n","c","e",","," ","L","e","e","d","s","\n","M","a","s","t","e","r"," ","o","f"," ","S","c","i","e","n","c","e",","," ","Y","o","r","k","\n">>
SameDegreeTwice == <<"B","a","c","h","e","l","o","r"," ","o","f"," ","A","r","t","s",","," ","2","0","1","0","\n","s","o","m","e"," ","w","o","r","d","s","\n","B","a","c","h","e","l","o","r"," ","o","f"," ","A","r","t","s",","," ","2","0","1","2","\n">>
\* one line of the section holds the degree, the institution and the dates
DegreeOnOneLine == <<"E","D","U","C","A","T","I","O","N"," ","B","a","c","h","e","l","o","r"," ","o","f"," ","A","r","t","s"," ","a","t"," ","L","e","e","d","s"," ","U","n","i","v","e","r","s","i","t","y"," ","0","2","/","2","0","1","6"," ","-"," ","1","1","/","2","0","1","9">>
\* sections of several lines: the lines after the first begin with a digit
TwoDegrees == <<"E","D","U","C","A","T","I","O","N","\n","B","a","c","h","e","l","o","r"," ","o","f"," ","A","r","t","s","\n","1","."," ","L","e","e","d","s"," ","U","n","i","v","e","r","s","i","t","y",","," ","0","2","/","2","0","1","6"," ","-"," ","1","1","/","2","0","1","9","\n","2","."," ","M","a","s","t","e","r"," ","o","f"," ","A","r","t","s","\n","3","."," ","Y","o","r","k"," ","C","o","l","l","e","g","e","\n">>
DegreeThenDates == <<"E","D","U","C","A","T","I","O","N","\n","B","a","c","h","e","l","o","r"," ","o","f"," ","A","r","t","s","\n","0","2","/","2","0","1","6"," ","-"," ","1","1","/","2","0","1","9","\n">>
InstitutionFirst == <<"E","D","U","C","A","T","I","O","N","\n","1","."," ","L","e","e","d","s"," ","U","n","i","v","e","r","s","i","t","y","\n","2","."," ","B","a","c","h","e","l","o","r"," ","o","f"," ","A","r","t","s","\n","3","."," ","B","a","c","h","e","l","o","r"," ","o","f"," ","A","r","t","s","\n","4","."," ","Y","o","r","k"," ","C","o","l","l","e","g","e",","," ","L","e","e","d","s",","," ","U","K","\n">>
DegreeRepeated == <<"E","D","U","C","A","T","I","O","N","\n","B","a","c","h","e","l","o","r"," ","o","f"," ","A","r","t","s","\n","1","."," ","B","a","c","h","e","l","o","r"," ","o","f"," ","A","r","t","s","\n","2","."," ","Y","o","r","k"," ","C","o","l","l","e","g","e","\n">>
EducationTexts ==
  { DegreeText, SameSubjectTwice, SameDegreeTwice, DegreeOnOneLine,
    TwoDegrees, DegreeThenDates, InstitutionFirst, DegreeRepeated }

\* a title with a description line and a date line, the second time the title stands twice
CertDescribed == <<"C","E","R","T","I","F","I","C","A","T","I","O","N","S","\n","A","W","S"," ","C","e","r","t","i","f","i","e","d"," ","D","e","v","e","l","o","p","e","r","\n","t","h","i","s"," ","i","s"," ","a"," ","l","o","n","g"," ","d","e","s","c","r","i","p","t","i","o","n"," ","l","i","n","e","\n","(","2","0","2","0"," ","-"," ","2","0","2","3",")","\n">>
CertReopened ==
  <<"C","E","R","T","I","F","I","C","A","T","I","O","N","S","\n","A","W","S"," ","C","e","r","t","i","f","i","e","d"," ","D","e","v","e","l","o","p","e","r","\n","t","h","i","s"," ","i","s"," ","a"," ","l","o","n","g"," ","d","e","s","c","r","i","p","t","i","o","n"," ","l","i","n","e","\n","A","W","S"," ","C","e","r","t","i","f","i","e","d"," ","D","e","v","e","l","o","p","e","r","\n","a","n","o","t","h","e","r"," ","l","o","n","g"," ","d","e","s","c","r","i","p","t","i","o","n"," ","l","i","n","e","\n","(","2","0","2","0"," ","-"," ","2","0","2","3",")","\n">>
\* the same title on consecutive lines
CertTwice == <<"C","E","R","T","I","F","I","C","A","T","I","O","N","S","\n","A","W","S"," ","C","e","r","t","i","f","i","e","d"," ","D","e","v","e","l","o","p","e","r","\n","A","W","S"," ","C","e","r","t","i","f","i","e","d"," ","D","e","v","e","l","o","p","e","r","\n">>
CertThrice == <<"C","E","R","T","I","F","I","C","A","T","I","O","N","S","\n","A","W","S"," ","C","e","r","t","i","f","i","e","d"," ","D","e","v","e","l","o","p","e","r","\n","A","W","S"," ","C","e","r","t","i","f","i","e","d"," ","D","e","v","e","l","o","p","e","r","\n","A","W","S"," ","C","e","r","t","i","f","i","e","d"," ","D","e","v","e","l","o","p","e","r","\n">>
\* a certificate that is not "certified", and a short title
CertOthers == <<"C","E","R","T","I","F","I","C","A","T","I","O","N","S","\n","C","e","r","t","i","f","i","c","a","t","e"," ","o","f"," ","M","e","r","i","t","\n","G","C","P"," ","C","e","r","t","i","f","i","e","d"," ","E","n","g","i","n","e","e","r","\n","(","2","0","2","1",")","\n","C","e","r","t","i","f","i","e","d","\n","S","K","I","L","L","S","\n","K","a","n","b","a","n"," ","C","e","r","t","i","f","i","e","d"," ","C","o","a","c","h","\n">>
CertTexts == { CertText, CertDescribed, CertReopened, CertTwice, CertThrice, CertOthers }

\* interests followed by a short heading, by a long heading, and with repeated lines
InterestsThenSkills == <<"I","N","T","E","R","E","S","T","S","\n","h","i","k","i","n","g","\n","S","K","I","L","L","S","\n","P","y","t","h","o","n",","," ","G","o","\n">>
InterestsThenEducation == <<"I","n","t","e","r","e","s","t","s","\n","h","i","k","i","n","g","\n","c","h","e","s","s","\n","\n","E","D","U","C","A","T","I","O","N","\n","B","a","c","h","e","l","o","r"," ","o","f"," ","A","r","t","s","\n">>
InterestsThenLong == <<"I","N","T","E","R","E","S","T","S","\n","h","i","k","i","n","g","\n","W","O","R","K"," ","E","X","P","E","R","I","E","N","C","E","\n","D","e","v","e","l","o","p","e","r","\n">>
InterestsRepeated == <<"M","y"," ","i","n","t","e","r","e","s","t","s","\n","C","h","e","s","s","\n","h","i","k","i","n","g","\n","c","h","e","s","s","\n","R","e","a","d","i","n","g"," ","b","o","o","k","s","\n","C","H","E","S","S","\n","H","i","k","i","n","g","\n">>
InterestsTexts == { InterestsThenSkills, InterestsThenEducation, InterestsThenLong, InterestsRepeated }

\* terms that end in a sign, terms followed by a digit or a sign, a term outside the
\* section, a second section, and terms in capitals
SkillsSymbols == <<"S","K","I","L","L","S","\n","P","y","t","h","o","n",","," ","C","+","+",","," ","C","#","\n">>
SkillsVersions == <<"S","K","I","L","L","S","\n","C","+","+","1","1"," ","a","n","d"," ","R","&","D","\n">>
SkillsOutside == <<"D","o","c","k","e","r"," ","u","s","e","d"," ","d","a","i","l","y",".","\n","S","K","I","L","L","S","\n","P","y","t","h","o","n",","," ","G","o","\n">>
SkillsAndTechnologies == <<"S","K","I","L","L","S",":"," ","P","y","t","h","o","n","\n","n","o","t","e","s"," ","h","e","r","e",".","\n","T","e","c","h","n","o","l","o","g","i","e","s",":"," ","D","o","c","k","e","r","\n">>
SkillsCapitals == <<"S","K","I","L","L","S","\n","R","E","S","T",","," ","A","P","I",","," ","H","T","M","L",","," ","M","A","T","L","A","B",","," ","J","a","v","a","S","c","r","i","p","t","s","\n">>
HeadingAtEnd == <<"D","o","c","k","e","r","\n","s","k","i","l","l","s">>
MoreSkillsTexts ==
  { SkillsSymbols, SkillsVersions, SkillsOutside, SkillsAndTechnologies, SkillsCapitals, HeadingAtEnd }

\* addresses with an administrative token in the domain, a webmail name in the local
\* part, and both where they belong
InfoInDomain == <<"J","o","h","n"," ","S","m","i","t","h","\n","j","o","h","n","@","i","n","f","o","s","y","s",".","c","o","m","\n","z","e","d","@","e","x","a","m","p","l","e",".","o","r","g","\n">>
GmailInLocal == <<"J","a","n","e"," ","D","o","e","\n","z","e","d","@","e","x","a","m","p","l","e",".","o","r","g","\n","g","m","a","i","l","f","a","n","@","e","x","a","m","p","l","e",".","n","e","t","\n">>
HelpInDomain == <<"J","a","n","e"," ","D","o","e","\n","z","e","d","@","h","e","l","p","d","e","s","k",".","i","o","\n","a","d","m","i","n","@","y","a","h","o","o",".","c","o","m","\n">>
InfoInLocal == <<"J","o","h","n"," ","S","m","i","t","h","\n","i","n","f","o","@","e","x","a","m","p","l","e",".","o","r","g","\n","j","o","h","n",".","s","m","i","t","h","@","g","m","a","i","l",".","c","o","m","\n">>
HalvedAddresses == { InfoInDomain, GmailInLocal, HelpInDomain, InfoInLocal }

\* companies of which a later one replaces a record other than the one whose name was seen
WrongOneReplaced ==
  <<"D","e","v","e","l","o","p","e","r","\n","F","o","o"," ","L","t","d"," ","B","a","r"," ","L","t","d","\n","E","n","g","i","n","e","e","r","\n","B","a","r"," ","L","t","d"," ","P","t","y","\n","D","e","v","e","l","o","p","e","r","\n","B","a","r"," ","L","t","d","\n","0","1","/","2","0","2","0"," ","-"," ","P","r","e","s","e","n","t","\n","E","n","g","i","n","e","e","r","\n","F","o","o"," ","L","t","d"," ","B","a","r"," ","L","t","d","\n">>
SeenLeftBehind ==
  <<"D","e","v","e","l","o","p","e","r","\n","F","o","o"," ","L","t","d","\n","E","n","g","i","n","e","e","r","\n","B","a","r"," ","L","t","d","\n","D","e","v","e","l","o","p","e","r","\n","F","o","o"," ","L","t","d"," ","B","a","r"," ","L","t","d","\n","D","e","v","e","l","o","p","e","r","\n","F","o","o"," ","L","t","d","\n","0","1","/","2","0","2","0"," ","-"," ","P","r","e","s","e","n","t","\n","E","n","g","i","n","e","e","r","\n","F","o","o"," ","L","t","d","\n","0","1","/","2","0","2","0"," ","-"," ","P","r","e","s","e","n","t","\n">>
ReplacingTexts == { WrongOneReplaced, SeenLeftBehind }

SectionDocuments ==
  CompanyTexts \cup ReplacingTexts \cup EducationTexts \cup CertTexts \cup InterestsTexts \cup SkillsTexts \cup MoreSkillsTexts \cup HalvedAddresses

InitSections ==
  /\ text \in SectionDocuments
  /\ nlp = NoModel
  /\ hash_seed \in 0..(HashSeeds - 1)
  /\ op = "idle"
  /\ out = Return(<<>>)
  /\ NoRequest

NextSections ==
  \/ ExtractEducation
  \/ ExtractCertifications
  \/ ExtractInterests
  \/ ExtractSkills
  \/ ExtractCompanies
  \/ ExtractEmail

SpecSections == InitSections /\ [][NextSections]_vars

(***************************************************************************)
(* Ingestion run again over a stored collection, with collaborators that   *)
(* may stop answering between two runs.                                    *)
(***************************************************************************)
\* what a working environment may turn into: the embedding service answers one request
\* and no more, the embedding model cannot be loaded, add raises, the store is unreachable
Outages ==
  { [AllUp EXCEPT !.embedding = "flaky"], [AllUp EXCEPT !.embedding = "down"],
    [AllUp EXCEPT !.store = "add_fails"], [AllUp EXCEPT !.store = "down"],
    [AllUp EXCEPT !.source = "down"] }

InitReingest ==
  /\ \/ text \in ServiceTexts /\ json_data = FullJson
     \/ text = ShortResume /\ json_data = EmptyDict
  /\ services \in Environments
  /\ chat_request = [question |-> <<>>]
  /\ nlp = NoModel /\ hash_seed = 0 /\ op = "idle" /\ out = Return(<<>>)
  /\ parsed = EmptyDict /\ collection = <<>>

\* a collaborator stops answering
Outage ==
  /\ services = AllUp
  /\ services' \in Outages
  /\ UNCHANGED <<text, nlp, hash_seed, op, out, json_data, parsed, chat_request, collection>>

NextReingest == IngestJsonResume \/ IngestUniversalResume \/ Outage
SpecReingest == InitReingest /\ [][NextReingest]_vars

(***************************************************************************)
(* Properties of the extractors                                            *)
(***************************************************************************)
Seeds == 0..(HashSeeds - 1)
StringExtractors == { "extract_name", "extract_email", "extract_phone", "extract_location" }
StringListExtractors == { "extract_skills_adaptive", "extract_certifications", "extract_interests" }
RecordListExtractors == { "extract_companies", "extract_education", "extract_references" }
Extractors == StringExtractors \cup StringListExtractors \cup RecordListExtractors

IsStr(v) == \A i \in 1..Len(v) : v[i] \in AnyChar
IsStrList(v) == \A i \in 1..Len(v) : IsStr(v[i])
\* a list of dicts whose keys are among keys, with str values but for the int under number
IsDictList(v, keys, number) ==
  \A i \in 1..Len(v) :
     /\ DOMAIN v[i] \subseteq keys
     /\ \A k \in DOMAIN v[i] : IF k = number THEN v[i][k] \in Nat ELSE IsStr(v[i][k])

HasShape(name, v) ==
  CASE name \in StringExtractors -> IsStr(v)
    [] name \in StringListExtractors -> IsStrList(v)
    [] name = "extract_companies" -> IsDictList(v, {"name", "position", "dates", "confidence"}, "confidence")
    [] name = "extract_education" -> IsDictList(v, {"degree", "institution", "dates", "location"}, "")
    [] name = "extract_references" -> IsDictList(v, {"name", "email", "phone"}, "")

\* C1: every field extractor returns a value of its declared shape (a string, a list of
\* strings or a list of records) and raises nothing, on every document, the empty one
\* included.
C1_ExtractorsTotal ==
  op \in Extractors => out.exc = "" /\ HasShape(op, out.val)

\* extract_phone has returned the empty string for the empty document
C1_EmptyDocument ==
  /\ text = <<>>
  /\ op = "extract_phone"
  /\ out = Return(<<>>)

\* C2: a second call of an extractor on the same text, in whatever process it is made,
\* gives what the first call gave: the result does not depend on the order in which the
\* sets of seen company names and of matched skills are visited.
C2_SameInEveryProcess ==
  /\ op = "extract_companies" => \A s \in Seeds : extract_companies(text, s) = out
  /\ op = "extract_skills_adaptive" => \A s \in Seeds : extract_skills_adaptive(text, s) = out

Dated(company) == company.dates # DateNotSpecified
\* C3: of two candidate records one of whose names holds the other (case set aside)
\* exactly one survives deduplication, and when exactly one of the two has a real date
\* the survivor is that one.
C3_DatedSurvives ==
  LET companies == CompanyCandidates(text)
  IN  (/\ op = "extract_companies"
       /\ Len(companies) = 2
       /\ Similar(StrLower(companies[1].name), StrLower(companies[2].name)))
      => /\ Len(out.val) = 1
         /\ Dated(companies[1]) /\ ~Dated(companies[2]) => out.val[1] = companies[1]
         /\ Dated(companies[2]) /\ ~Dated(companies[1]) => out.val[1] = companies[2]

DegreeLines == <<"B","a","c","h","e","l","o","r"," ","o","f"," ","C","o","m","p","u","t","e","r"," ","S","c","i","e","n","c","e","\n","U","n","i","v","e","r","s","i","t","y"," ","o","f"," ","Q","u","e","e","n","s","l","a","n","d","\n","0","2","/","2","0","1","6"," ","-"," ","1","1","/","2","0","1","9">>
\* C6: from a text with the consecutive lines "Bachelor of Computer Science",
\* "University of Queensland", "02/2016 - 11/2019" under an education heading,
\* extract_education returns exactly one entry, with degree, institution and dates set.
C6_OneFullEntry ==
  (op = "extract_education" /\ Contains(text, <<"E","D","U","C","A","T","I","O","N","\n">> \o DegreeLines))
  => /\ Len(out.val) = 1
     /\ Truthy(out.val[1], "degree")
     /\ Truthy(out.val[1], "institution")
     /\ Truthy(out.val[1], "dates")

HasSkillsHeader(t) == \E i \in 1..Len(SplitLines(t)) : SplitLines(t)[i] = <<"S","K","I","L","L","S">>
HasToken(t, word) == WholeWord(t, WordBoundaries(t), word)
\* C7: from every document with the section header "SKILLS" and the token "Python",
\* wherever Python stands, extract_skills_adaptive returns a list that has "Python" and
\* has not "SKILLS".
C7_PythonListed ==
  (op = "extract_skills_adaptive" /\ HasSkillsHeader(text) /\ HasToken(text, <<"P","y","t","h","o","n">>))
  => InList(<<"P","y","t","h","o","n">>, out.val) /\ ~InList(<<"S","K","I","L","L","S">>, out.val)

AllEmpty(parsed_data) ==
  /\ \A k \in {"name", "email", "phone", "location"} : parsed_data.personal[k] = <<>>
  /\ parsed_data.experience.companies = <<>>
  /\ \A k \in {"skills", "education", "certifications", "interests", "references"} :
        parsed_data[k] = <<>>
\* C8: parsing a document of plain prose (no heading, address, number or company suffix)
\* gives a record whose string fields and list fields are all empty, and the chunk
\* builder makes no chunk of that record.
C8_ProseYieldsNothing ==
  text \in ProseTexts
  => /\ op = "parse_resume" => out.exc = "" /\ AllEmpty(out.val)
     /\ op = "create_universal_chunks" => out.val = <<>>

Before(t, a, b) == StrFind(t, a) < StrFind(t, b)
\* C4: from a text with john.smith@gmail.com, hr@company.com and noreply@jobs.com whose
\* extracted name is "John Smith", extract_email returns john.smith@gmail.com, whatever
\* the order of the three addresses and the words before the personal one.
C4_PersonalAddress ==
  (/\ op = "extract_email"
   /\ text \in EmailTexts
   /\ extract_name(text, nlp).val = <<"J","o","h","n"," ","S","m","i","t","h">>)
  => out.val = PersonalAddress

\* the personal address stands last, after reference words, and has been returned
C4_LastAndReferred ==
  /\ op = "extract_email"
  /\ text \in EmailTexts
  /\ extract_name(text, nlp).val = <<"J","o","h","n"," ","S","m","i","t","h">>
  /\ Contains(text, <<"R","e","f","e","r","e","n","c","e"," ">> \o PersonalAddress)
  /\ Before(text, Addresses[2], PersonalAddress)
  /\ Before(text, Addresses[3], PersonalAddress)
  /\ out.val = PersonalAddress

\* C5: from a text with a number under a "Mobile:" label and, later, a number inside a
\* "Contact: Dr. Jane Doe ..." sentence, extract_phone returns the number under "Mobile:".
C5_MobileNumber ==
  (op = "extract_phone" /\ text \in PhoneTexts) => out.val = MobileNumber

NoneAbove(scored, i) == \A j \in 1..Len(scored) : scored[j].score <= scored[i].score
\* C9: extract_email returns the empty string exactly when the text has no address, and
\* extract_phone exactly when no match of a phone pattern cleans to ten characters or
\* more; otherwise each returns a candidate of the highest score, be that score zero or
\* negative.
C9_NeverGivesUp ==
  /\ op = "extract_email" =>
       LET emails == MatchTexts(email_pattern, text)
           scored == EmailScores(text, nlp)
       IN  /\ out.val = <<>> <=> emails = <<>>
           /\ emails # <<>> => \E i \in 1..Len(scored) :
                                  scored[i].email = out.val /\ NoneAbove(scored, i)
  /\ op = "extract_phone" =>
       LET scored == PhoneCandidates(text)
       IN  /\ out.val = <<>> <=> scored = <<>>
           /\ scored # <<>> => \E i \in 1..Len(scored) :
                                  scored[i].phone = out.val /\ NoneAbove(scored, i)

NonePositive(scored) == \A i \in 1..Len(scored) : scored[i].score <= 0
\* the only address of the text scores below zero and has been returned
C9_NegativeReturned ==
  /\ op = "extract_email"
  /\ EmailScores(text, nlp) # <<>>
  /\ NonePositive(EmailScores(text, nlp))
  /\ out.val = <<"h","r","@","c","o","m","p","a","n","y",".","c","o","m">>

\* C10 as stated: for each of email, phone and location, when no candidate of the field
\* has a score above zero the extractor returns the empty string.
C10_NoGuess ==
  /\ op = "extract_email" /\ NonePositive(EmailScores(text, nlp)) => out.val = <<>>
  /\ op = "extract_phone" /\ NonePositive(PhoneCandidates(text)) => out.val = <<>>
  /\ op = "extract_location" /\ NonePositive(LocationCandidates(text)) => out.val = <<>>

\* C10, amended: when no location candidate has a score above zero, extract_location
\* returns the empty string.
C10_NoGuessedLocation ==
  (op = "extract_location" /\ NonePositive(LocationCandidates(text))) => out.val = <<>>

\* a place was found, none with a score above zero, and nothing has been returned
C10_PlaceDropped ==
  /\ op = "extract_location"
  /\ LocationCandidates(text) # <<>>
  /\ NonePositive(LocationCandidates(text))
  /\ out = Return(<<>>)

(***************************************************************************)
(* Properties of the selection among candidates                            *)
(***************************************************************************)
\* the candidates of the highest score
Best(scored) == {i \in 1..Len(scored) : NoneAbove(scored, i)}

\* C11: when several candidates share the highest score, extract_email, extract_phone
\* and extract_location return the one whose match begins at the earliest offset of the
\* text, whichever pattern of the list gave it.
C11_EarliestOfTheBest ==
  /\ (op = "extract_email" /\ out.val # <<>>) =>
       \A i \in Best(EmailScores(text, nlp)) :
          StrFind(text, out.val) <= StrFind(text, EmailScores(text, nlp)[i].email)
  /\ (op = "extract_phone" /\ out.val # <<>>) =>
       \E i \in Best(PhoneCandidates(text)) :
          /\ PhoneCandidates(text)[i].phone = out.val
          /\ \A j \in Best(PhoneCandidates(text)) :
                PhoneCandidates(text)[i].position <= PhoneCandidates(text)[j].position
  /\ (op = "extract_location" /\ out.val # <<>>) =>
       \A i \in Best(LocationCandidates(text)) :
          StrFind(text, out.val) <= StrFind(text, LocationCandidates(text)[i].location)

\* the chunks of one section, in the order of the call's result
OfSection(chunks, section) == SelectSeq(chunks, LAMBDA c : c.metadata.section = section)
\* the chunks of the section stand one for one for the entries, and each field of the
\* metadata holds the entry's value of the key, or the default when the key is absent
Filled(chunks, entries, field, key, default) ==
  /\ Len(chunks) = Len(entries)
  /\ \A i \in 1..Len(entries) : chunks[i].metadata[field] = Get(entries[i], key, default)
\* some entry of the input stands behind the chunk
FromEntry(chunk, entries, field, key, default) ==
  \E i \in 1..Len(entries) : chunk.metadata[field] = Get(entries[i], key, default)

\* C12: on a record of which any key, at the top or inside an entry, may be absent, both
\* chunk builders return normally, and what they write for an absent key is the default
\* of the code: the person 'Unknown', 'Unknown Company', 'Unknown Position', 'Unknown
\* Duration', 'Unknown Institution', 'Unknown Degree', 'Unknown Project', 'Project', the
\* category's key for a group without category (JSON); 'Software Professional', 'Date not
\* specified' and '' for the fields of an education entry (parser record).
C12_MissingKeysGetDefaults ==
  /\ op \in {"create_json_chunks", "create_universal_chunks"} => out.exc = ""
  /\ op = "create_json_chunks" =>
       /\ \A i \in 1..Len(out.val) :
            out.val[i].metadata.person = Get(Get(json_data, "personal_info", EmptyDict), "name", <<"U","n","k","n","o","w","n">>)
       /\ Filled(OfSection(out.val, <<"e","x","p","e","r","i","e","n","c","e">>), Get(json_data, "work_experience", <<>>),
                 "company_name", "company", <<"U","n","k","n","o","w","n"," ","C","o","m","p","a","n","y">>)
       /\ Filled(OfSection(out.val, <<"e","x","p","e","r","i","e","n","c","e">>), Get(json_data, "work_experience", <<>>),
                 "position", "position", <<"U","n","k","n","o","w","n"," ","P","o","s","i","t","i","o","n">>)
       /\ Filled(OfSection(out.val, <<"e","x","p","e","r","i","e","n","c","e">>), Get(json_data, "work_experience", <<>>),
                 "duration", "duration", <<"U","n","k","n","o","w","n"," ","D","u","r","a","t","i","o","n">>)
       /\ Filled(OfSection(out.val, <<"e","d","u","c","a","t","i","o","n">>), Get(json_data, "education", <<>>),
                 "institution", "institution", <<"U","n","k","n","o","w","n"," ","I","n","s","t","i","t","u","t","i","o","n">>)
       /\ Filled(OfSection(out.val, <<"e","d","u","c","a","t","i","o","n">>), Get(json_data, "education", <<>>),
                 "degree", "degree", <<"U","n","k","n","o","w","n"," ","D","e","g","r","e","e">>)
       /\ Filled(OfSection(out.val, <<"e","d","u","c","a","t","i","o","n">>), Get(json_data, "education", <<>>),
                 "duration", "duration", <<"U","n","k","n","o","w","n"," ","D","u","r","a","t","i","o","n">>)
       /\ Filled(OfSection(out.val, <<"p","r","o","j","e","c","t","s">>), Get(json_data, "projects", <<>>),
                 "project_name", "name", <<"U","n","k","n","o","w","n"," ","P","r","o","j","e","c","t">>)
       /\ Filled(OfSection(out.val, <<"p","r","o","j","e","c","t","s">>), Get(json_data, "projects", <<>>),
                 "project_type", "type", <<"P","r","o","j","e","c","t">>)
       /\ \A i \in 1..Len(out.val) :
            out.val[i].metadata.section = <<"s","k","i","l","l","s">> => out.val[i].metadata.category \in {<<"L","a","n","g","u","a","g","e","s">>, <<"c","o","r","e">>}
  /\ op = "create_universal_chunks" =>
       /\ \A i \in 1..Len(out.val) :
            out.val[i].metadata.person = Get(Get(parsed, "personal", EmptyDict), "name", <<"U","n","k","n","o","w","n">>)
       /\ \A i \in 1..Len(out.val) :
            out.val[i].metadata.section = <<"e","x","p","e","r","i","e","n","c","e">> =>
              \E k \in 1..Len(Get(Get(parsed, "experience", EmptyDict), "companies", <<>>)) :
                 LET company_data == Get(Get(parsed, "experience", EmptyDict), "companies", <<>>)[k]
                 IN /\ out.val[i].metadata.company_name = Get(company_data, "name", <<>>)
                    /\ out.val[i].metadata.position = Get(company_data, "position", <<"S","o","f","t","w","a","r","e"," ","P","r","o","f","e","s","s","i","o","n","a","l">>)
                    /\ out.val[i].metadata.dates = Get(company_data, "dates", <<"D","a","t","e"," ","n","o","t"," ","s","p","e","c","i","f","i","e","d">>)
       /\ \A i \in 1..Len(out.val) :
            out.val[i].metadata.section = <<"e","d","u","c","a","t","i","o","n">> =>
              /\ FromEntry(out.val[i], Get(parsed, "education", <<>>), "degree", "degree", <<>>)
              /\ FromEntry(out.val[i], Get(parsed, "education", <<>>), "institution", "institution", <<>>)
              /\ FromEntry(out.val[i], Get(parsed, "education", <<>>), "dates", "dates", <<>>)

\* a company entry without its name, position and duration went through create_json_chunks,
\* and a company entry without position and dates through create_universal_chunks
C12_Witness ==
  \/ /\ op = "create_json_chunks"
     /\ \E i \in 1..Len(out.val) :
          /\ out.val[i].metadata.section = <<"e","x","p","e","r","i","e","n","c","e">>
          /\ out.val[i].metadata.company_name = <<"U","n","k","n","o","w","n"," ","C","o","m","p","a","n","y">>
          /\ out.val[i].metadata.position = <<"U","n","k","n","o","w","n"," ","P","o","s","i","t","i","o","n">>
          /\ out.val[i].metadata.duration = <<"U","n","k","n","o","w","n"," ","D","u","r","a","t","i","o","n">>
  \/ /\ op = "create_universal_chunks"
     /\ \E i \in 1..Len(out.val) :
          /\ out.val[i].metadata.section = <<"e","x","p","e","r","i","e","n","c","e">>
          /\ out.val[i].metadata.position = <<"S","o","f","t","w","a","r","e"," ","P","r","o","f","e","s","s","i","o","n","a","l">>
          /\ out.val[i].metadata.dates = <<"D","a","t","e"," ","n","o","t"," ","s","p","e","c","i","f","i","e","d">>

\* the places, among the first ten non-blank lines, of the lines that qualify as a name
Qualifying(t) == {i \in 1..Len(NonBlankLines(t)) : i <= 10 /\ NameLineOk(NonBlankLines(t)[i])}

\* C13: when the NER model did not load (self.nlp is None), extract_name returns and does
\* not raise: it returns the first line that qualifies among the first ten non-blank
\* lines, as its words joined by single spaces, and '' when no line of them qualifies.
C13_NameWithoutModel ==
  (op = "extract_name" /\ ~nlp.loaded) =>
     /\ out.exc = ""
     /\ Qualifying(text) # {} =>
          \E i \in Qualifying(text) :
             /\ \A j \in Qualifying(text) : i <= j
             /\ out.val = Join(SplitWords(NonBlankLines(text)[i]), <<" ">>)
     /\ Qualifying(text) = {} => out.val = <<>>

\* extract_name ran without a model on a text of which no line qualifies, the name
\* standing below the tenth non-blank line
C13_Witness ==
  /\ op = "extract_name"
  /\ ~nlp.loaded
  /\ Len(NonBlankLines(text)) > 10
  /\ \E i \in 11..Len(NonBlankLines(text)) : NameLineOk(NonBlankLines(text)[i])
  /\ out = Return(<<>>)

\* C14: when reading the document fails or gives an empty text, ingest_universal_resume
\* ends as a success with no chunk: it returns True and leaves a collection without
\* items; it neither reports a failure nor raises.
C14_EmptyTextIsSuccess ==
  (op = "ingest_universal_resume" /\ extract_text_from_pdf(text, services) = <<>>
     /\ services.embedding = "up" /\ services.store = "up") =>
        /\ out = Return(TRUE)
        /\ collection = <<>>

\* the call ended as an explicit failure: an exception (an HTTP error status for chat) or
\* the return value False
ExplicitFailure == out.exc # "" \/ (op # "chat" /\ out.val = FALSE)
\* the question is no greeting: chat goes to the collaborators
Asked == ~InList(RStrip(Strip(StrLower(chat_request.question)), {"!", "?", "."}), greetings)

\* an ingestion during which the embedding service or the store failed
IngestFailureSurfaces ==
  (/\ op \in {"ingest_json_resume", "ingest_universal_resume"}
   /\ op = "ingest_universal_resume" => extract_text_from_pdf(text, services) # <<>>
   /\ services.source = "up"
   /\ services.embedding = "down" \/ services.store \in {"down", "add_fails"}) => ExplicitFailure
\* a chat request during which the embedding service or the store failed
RetrievalFailureSurfaces ==
  (op = "chat" /\ Asked /\ (services.embedding = "down" \/ services.store = "down")) => ExplicitFailure
\* a chat request during which the generation service failed
GenerationFailureSurfaces ==
  (/\ op = "chat" /\ Asked
   /\ services.embedding \in {"up", "flaky"} /\ services.store # "down"
   /\ collection # <<>>
   /\ services.generation # "up") => ExplicitFailure

\* C15: a failure of the embedding service, of the vector store or of the generation
\* service during an ingestion or a chat request reaches the caller as an exception, a
\* return of False or an HTTP error status, never as a normal result.
C15_FailuresSurface ==
  /\ IngestFailureSurfaces
  /\ RetrievalFailureSurfaces
  /\ GenerationFailureSurfaces

\* C16: every chunk create_json_chunks or create_universal_chunks returns has the keys
\* section, type and person in its metadata, and the chunks of one call all name the
\* same person.
C16_MetadataKeys ==
  op \in {"create_json_chunks", "create_universal_chunks"} =>
     /\ \A i \in 1..Len(out.val) : {"section", "type", "person"} \subseteq DOMAIN out.val[i].metadata
     /\ \A i, j \in 1..Len(out.val) : out.val[i].metadata.person = out.val[j].metadata.person

\* a call gave chunks of four sections or more for a record without the person's name
C16_Witness ==
  /\ op \in {"create_json_chunks", "create_universal_chunks"}
  /\ Cardinality({out.val[i].metadata.section : i \in 1..Len(out.val)}) >= 4
  /\ \A i \in 1..Len(out.val) : out.val[i].metadata.person = <<"U","n","k","n","o","w","n">>

\* the duration (JSON record) or the dates (parser record) of a company chunk
DurationOf(chunk) ==
  IF "duration" \in DOMAIN chunk.metadata THEN chunk.metadata.duration ELSE chunk.metadata.dates
\* the text of a company chunk says "currently employed" exactly when the chunk's duration
\* holds "present", in any case of the letters
CurrentIffPresent(chunks) ==
  \A i \in 1..Len(chunks) :
     chunks[i].metadata.section = <<"e","x","p","e","r","i","e","n","c","e">> =>
        (Contains(StrLower(DurationOf(chunks[i])), <<"p","r","e","s","e","n","t">>)
           <=> Contains(chunks[i].text, <<"c","u","r","r","e","n","t","l","y"," ","e","m","p","l","o","y","e","d">>))
JsonCurrentIffPresent == op = "create_json_chunks" => CurrentIffPresent(out.val)
UniversalCurrentIffPresent == op = "create_universal_chunks" => CurrentIffPresent(out.val)

\* C17: in both chunk builders a company entry whose duration or dates hold "present"
\* (case-insensitive) gives a chunk with the "currently employed" sentences, and an entry
\* without "present" gives a chunk without them.
C17_CurrentEmployment ==
  /\ JsonCurrentIffPresent
  /\ UniversalCurrentIffPresent

\* the value a metadata field takes through the chunks, in their order
FieldOf(chunks, field) == [i \in 1..Len(chunks) |-> chunks[i].metadata[field]]
\* the sections of the chunks stand in the fixed order: a personal chunk comes first, and
\* no education chunk comes before an experience chunk
SectionOrder(chunks) ==
  /\ \A i \in 1..Len(chunks) : chunks[i].metadata.section = <<"p","e","r","s","o","n","a","l">> => i = 1
  /\ \A i, j \in 1..Len(chunks) :
        (chunks[i].metadata.section = <<"e","x","p","e","r","i","e","n","c","e">> /\ chunks[j].metadata.section = <<"e","d","u","c","a","t","i","o","n">>) => i < j
\* the entries that hold a non-empty value for the key
Named(entries, key) == SelectSeq(entries, LAMBDA e : Get(e, key, <<>>) # <<>>)
\* the entries that hold any key at all
NonEmpty(entries) == SelectSeq(entries, LAMBDA e : DOMAIN e # {})

JsonOnePerEntry ==
  op = "create_json_chunks" =>
     /\ FieldOf(OfSection(out.val, <<"e","x","p","e","r","i","e","n","c","e">>), "company_name")
          = [i \in 1..Len(Get(json_data, "work_experience", <<>>)) |->
               Get(Get(json_data, "work_experience", <<>>)[i], "company", <<"U","n","k","n","o","w","n"," ","C","o","m","p","a","n","y">>)]
     /\ FieldOf(OfSection(out.val, <<"e","d","u","c","a","t","i","o","n">>), "degree")
          = [i \in 1..Len(Get(json_data, "education", <<>>)) |->
               Get(Get(json_data, "education", <<>>)[i], "degree", <<"U","n","k","n","o","w","n"," ","D","e","g","r","e","e">>)]
     /\ SectionOrder(out.val)
UniversalOnePerEntry ==
  op = "create_universal_chunks" =>
     /\ FieldOf(OfSection(out.val, <<"e","x","p","e","r","i","e","n","c","e">>), "company_name")
          = FieldOf([i \in 1..Len(Named(Get(Get(parsed, "experience", EmptyDict), "companies", <<>>), "name")) |->
                       [metadata |-> Named(Get(Get(parsed, "experience", EmptyDict), "companies", <<>>), "name")[i]]],
                    "name")
     /\ Len(OfSection(out.val, <<"e","d","u","c","a","t","i","o","n">>)) = Len(NonEmpty(Get(parsed, "education", <<>>)))
     /\ SectionOrder(out.val)

\* C18: both chunk builders give one experience chunk for each company entry and one
\* education chunk for each education entry, in the order of the record, the personal
\* chunk first and the experience chunks before the education chunks; no company entry
\* with a non-empty name is left out.
C18_OneChunkPerEntry ==
  /\ JsonOnePerEntry
  /\ UniversalOnePerEntry

\* C19: among the records extract_companies returns after deduplication, no name is a
\* substring of another one's name, case set aside; this includes a name that holds two
\* names kept before it.
C19_NoNameHoldsAnother ==
  (op = "extract_companies" /\ out.exc = "") =>
     \A i, j \in 1..Len(out.val) :
        i # j => ~Contains(StrLower(out.val[i].name), StrLower(out.val[j].name))

\* the lines of the education section of the text
EducationLines(t) ==
  IF Search(education_section_pattern, t) = NoMatch THEN <<>>
  ELSE SplitLines(MSpan(t, Search(education_section_pattern, t), EducationGroup, EducationGroup + 1))
\* the scan after the first k lines of the section
ScanAfter(t, k) ==
  EducationScan(SubSeq(EducationLines(t), 1, k), 1, [current |-> EmptyDict, entries |-> <<>>])
\* line k of the section closes the working entry and adds it to the entries
EmittedAt(t, k) == Len(ScanAfter(t, k).entries) > Len(ScanAfter(t, k - 1).entries)

\* C20: the section scan of extract_education emits an entry before the end of the
\* section only at a line on which a degree pattern matched and when the working entry
\* holds a field other than the degree; otherwise the entry stays open.
C20_EmittedWithAnotherField ==
  op = "extract_education" =>
     \A k \in 1..Len(EducationLines(text)) :
        EmittedAt(text, k) =>
           /\ LineDegree(Strip(EducationLines(text)[k])) # <<>>
           /\ DOMAIN ScanAfter(text, k).entries[Len(ScanAfter(text, k).entries)] # {"degree"}


(***************************************************************************)
(* Claims C21..C30                                                         *)
(***************************************************************************)
\* C21: the sequence extract_education returns never holds two equal entries, whether
\* they come from the section scan, the entry left at the end of the section or the
\* degree patterns run on the whole document.
C21_NoEqualEntries ==
  (op = "extract_education" /\ out.exc = "") =>
     \A i, j \in 1..Len(out.val) : i # j => out.val[i] # out.val[j]
\* the entries of the section scan alone are distinct
C21_ScanEntriesDistinct ==
  op = "extract_education" =>
     \A i, j \in 1..Len(SectionEntries(text)) : i # j => SectionEntries(text)[i] # SectionEntries(text)[j]

\* the scan of extract_certifications after the first k lines of the section
CertScanAfter(t, k) == CertScan(SubSeq(CertLines(t), 1, k), 1, [current |-> <<>>, certs |-> <<>>])
Parenthesized(line) == Contains(line, <<"(">>) /\ Contains(line, <<")">>)
\* a long line that is neither a title nor a parenthesized line
IsDescription(line) == ~IsCertTitle(line) /\ ~Parenthesized(line) /\ Len(line) > MinDescriptionLen

\* C22: in extract_certifications a line of more than 20 characters that is neither a
\* certification title nor a parenthesized line closes the open certification, so that no
\* later parenthesized line is appended to it, and the text of the line appears in no
\* returned certification.
C22_DescriptionCloses ==
  (op = "extract_certifications" /\ out.exc = "") =>
     \A k \in 1..Len(CertLines(text)) :
        IsDescription(CertLines(text)[k]) =>
           /\ CertScanAfter(text, k).current = <<>>
           /\ \A i \in 1..Len(out.val) : ~Contains(out.val[i], CertLines(text)[k])
\* the text of a description line appears in no returned certification
C22_DescriptionLeftOut ==
  (op = "extract_certifications" /\ out.exc = "") =>
     \A k \in 1..Len(CertLines(text)) :
        IsDescription(CertLines(text)[k]) =>
           \A i \in 1..Len(out.val) : ~Contains(out.val[i], CertLines(text)[k])

\* C23: the list extract_certifications returns holds no two equal strings, also when a
\* title stands on consecutive lines, and every entry contains "certified", case set
\* aside, and is longer than 10 characters.
C23_DistinctCertified ==
  (op = "extract_certifications" /\ out.exc = "") =>
     /\ \A i, j \in 1..Len(out.val) : i # j => out.val[i] # out.val[j]
     /\ \A i \in 1..Len(out.val) :
           Contains(StrLower(out.val[i]), <<"c","e","r","t","i","f","i","e","d">>) /\ Len(out.val[i]) > MinCertLen
\* every returned entry contains "certified" and is longer than 10 characters
C23_EveryEntryCertified ==
  (op = "extract_certifications" /\ out.exc = "") =>
     \A i \in 1..Len(out.val) :
        Contains(StrLower(out.val[i]), <<"c","e","r","t","i","f","i","e","d">>) /\ Len(out.val[i]) > MinCertLen

\* the stripped lines after the interests heading of the text
LinesAfterInterests(t) ==
  IF Search(interests_pattern, t) = NoMatch THEN <<>>
  ELSE StrippedLines(SubSeq(t, MEnd(Search(interests_pattern, t)), Len(t)))
\* a section heading line: a line in capitals, such as EDUCATION or SKILLS
AllCaps(line) == line # <<>> /\ IsUpper(line)
\* the lines before the first line that satisfies neither: the lines of the section
BeforeCaps(lines) == SubSeq(lines, 1, Least({i \in 1..(Len(lines) + 1) : i = Len(lines) + 1 \/ AllCaps(lines[i])}) - 1)
BeforeLongCaps(lines) == SubSeq(lines, 1, Least({i \in 1..(Len(lines) + 1) : i = Len(lines) + 1 \/ (AllCaps(lines[i]) /\ Len(lines[i]) > MinHeadingLen)}) - 1)
TitleCased(lines) == {StrTitle(lines[i]) : i \in 1..Len(lines)}
\* the result is in the order of first occurrence and has no two entries equal, case set aside
InOrderDistinct(val, lines) ==
  /\ \A i, j \in 1..Len(val) : i # j => StrLower(val[i]) # StrLower(val[j])
  /\ \A i, j \in 1..Len(val) :
        i < j => Least({k \in 1..Len(lines) : StrTitle(lines[k]) = val[i]})
                   < Least({k \in 1..Len(lines) : StrTitle(lines[k]) = val[j]})

\* C24: extract_interests collects only lines after the interests heading and before the
\* next section heading: once a heading line in capitals (EDUCATION, SKILLS) is reached no
\* later line is added; the result is title-cased, in the order of first occurrence and
\* without two entries equal when case is set aside.
C24_StopsAtNextHeading ==
  (op = "extract_interests" /\ out.exc = "") =>
     /\ \A i \in 1..Len(out.val) : out.val[i] \in TitleCased(BeforeCaps(LinesAfterInterests(text)))
     /\ InOrderDistinct(out.val, LinesAfterInterests(text))
\* the same with the heading the code stops at: a line in capitals of more than 10 characters
C24_StopsAtLongHeading ==
  (op = "extract_interests" /\ out.exc = "") =>
     /\ \A i \in 1..Len(out.val) : out.val[i] \in TitleCased(BeforeLongCaps(LinesAfterInterests(text)))
     /\ InOrderDistinct(out.val, LinesAfterInterests(text))

\* word stands in s as a whole word: an occurrence with no word character next to it
\* on either side
StandsAsWord(s, word) ==
  \E p \in 1..Len(s) :
     /\ StartsAt(s, word, p)
     /\ ~IsWordAt(s, p - 1)
     /\ ~IsWordAt(s, p + Len(word))
\* re.search(rf'\b{re.escape(word)}\b', s), run as a pattern
BoundaryMatch(s, word) == Search(<< <<WordB>> \o Lit(word) \o <<WordB>> >>, s) # NoMatch
Listed(val) == {val[i] : i \in 1..Len(val)}
Kept(skills) == {skill \in skills \ false_positive_skills : ~(IsUpper(skill) /\ IsAlpha(skill) /\ Len(skill) > 4)}

\* C25: extract_skills_adaptive returns exactly the terms of the vocabulary that stand as
\* a whole word, case set aside, in the search text, less the false-positive set and less
\* the terms in capitals, alphabetic and longer than 4 characters; the search text is the
\* detected skills sub-section when one with non-blank content is found, so a term that
\* occurs only outside it is not returned.
C25_ExactlyTheWholeWords ==
  (op = "extract_skills_adaptive" /\ out.exc = "") =>
     /\ Listed(out.val) = Kept({skill \in technical_skills : StandsAsWord(SkillsSearchText(text), StrLower(skill))})
     /\ Cardinality(Listed(out.val)) = Len(out.val)
\* the same with the match the code makes: the lower-cased term between two \b
C25_ExactlyTheBoundaryMatches ==
  (op = "extract_skills_adaptive" /\ out.exc = "") =>
     /\ Listed(out.val) = Kept({skill \in technical_skills : BoundaryMatch(SkillsSearchText(text), StrLower(skill))})
     /\ Cardinality(Listed(out.val)) = Len(out.val)
\* a term that occurs only outside the detected sub-section is not returned
C25_NothingFromOutside ==
  (op = "extract_skills_adaptive" /\ out.exc = "" /\ Strip(SkillsText(text)) # <<>>) =>
     \A i \in 1..Len(out.val) : Contains(StrLower(SkillsText(text)), StrLower(out.val[i]))

\* the two halves of a lower-cased address; the local part keeps its "@", which the tokens
\* "hr@", "jobs@", "careers@" and "team@" end with
LocalHalf(email) == SplitOn(StrLower(email), "@")[1] \o <<"@">>
DomainHalf(email) == SplitOn(StrLower(email), "@")[2]
\* the score with the bonus read from the domain and the penalty from the local part
HalvedScore(t, name_parts, email) ==
  NamePartBonus * NamePartHits(name_parts, SplitOn(StrLower(email), "@")[1])
    + (IF ContainsAny(DomainHalf(email), personal_patterns) THEN PersonalBonus ELSE 0)
    - (IF ContainsAny(LocalHalf(email), email_reference_indicators) THEN ReferencePenalty ELSE 0)
    - (IF ContainsAny(StrLower(email), business_patterns) THEN BusinessPenalty ELSE 0)
    - (IF ContainsAny(EmailContext(t, email), email_context_words) THEN EmailContextPenalty ELSE 0)
NameParts(t, n) == SplitWords(StrLower(extract_name(t, n).val))

\* C26: in the score of extract_email the bonus of 5 is given exactly when the domain of
\* the address matches the webmail list and the penalty of 20 exactly when the local part
\* holds an administrative token; text in the other half of the address triggers neither.
C26_EachHalfItsOwn ==
  (op = "extract_email" /\ out.exc = "") =>
     \A i \in 1..Len(EmailScores(text, nlp)) :
        EmailScores(text, nlp)[i].score
          = HalvedScore(text, NameParts(text, nlp), EmailScores(text, nlp)[i].email)
\* the same for the addresses whose other half holds no word of either list
C26_HoldsWhenOtherHalfIsClean ==
  (op = "extract_email" /\ out.exc = "") =>
     \A i \in 1..Len(EmailScores(text, nlp)) :
        (/\ ~ContainsAny(LocalHalf(EmailScores(text, nlp)[i].email), personal_patterns)
         /\ ~ContainsAny(DomainHalf(EmailScores(text, nlp)[i].email), email_reference_indicators))
        => EmailScores(text, nlp)[i].score
             = HalvedScore(text, NameParts(text, nlp), EmailScores(text, nlp)[i].email)

\* the skills a skills chunk lists: the items after "is proficient in: "
ListedSkills(chunk) ==
  Only({[i \in 1..Len(items) |-> Strip(items[i])] :
          items \in {SplitOn(Slice(chunk.text, StrFind(chunk.text, <<" ","i","n",":"," ">>) + 5, Len(chunk.text)), ",")}})
\* the certifications a certifications chunk lists: its lines after the two header lines
ListedCerts(chunk) ==
  Only({[i \in 1..(Len(lines) - 2) |-> Slice(lines[i + 2], 2, Len(lines[i + 2]))] :
          lines \in {SplitLines(chunk.text)}})
NoSkillListed(chunks, bad) ==
  \A c \in 1..Len(chunks) : \A i \in 1..Len(ListedSkills(chunks[c])) : ListedSkills(chunks[c])[i] \notin bad
ShortSkills(skills) == {skills[i] : i \in {k \in 1..Len(skills) : Len(skills[k]) = 1}}

\* C27: the skills chunk of create_universal_chunks never lists a skill of the builder's
\* false-positive list (ACT, PWA, WORK, NFTs, SPAs, SKILLS) nor a skill of one character,
\* and the certifications chunk never lists a certification in capitals or of 10
\* characters or fewer, whatever lists are handed over.
C27_FalsePositivesLeftOut ==
  op = "create_universal_chunks" =>
     /\ NoSkillListed(OfSection(out.val, <<"s","k","i","l","l","s">>),
                      chunk_false_positives \cup ShortSkills(Get(parsed, "skills", <<>>)))
     /\ \A c \in 1..Len(OfSection(out.val, <<"c","e","r","t","i","f","i","c","a","t","i","o","n","s">>)) :
           \A i \in 1..Len(ListedCerts(OfSection(out.val, <<"c","e","r","t","i","f","i","c","a","t","i","o","n","s">>)[c])) :
              /\ ~IsUpper(ListedCerts(OfSection(out.val, <<"c","e","r","t","i","f","i","c","a","t","i","o","n","s">>)[c])[i])
              /\ Len(ListedCerts(OfSection(out.val, <<"c","e","r","t","i","f","i","c","a","t","i","o","n","s">>)[c])[i]) > MinValidCertLen
\* the entries of the false-positive list longer than 4 characters are never listed, nor
\* is a certification of 10 characters or fewer
C27_LongOnesLeftOut ==
  op = "create_universal_chunks" =>
     /\ NoSkillListed(OfSection(out.val, <<"s","k","i","l","l","s">>), {s \in chunk_false_positives : Len(s) > MaxAcronymLen})
     /\ \A c \in 1..Len(OfSection(out.val, <<"c","e","r","t","i","f","i","c","a","t","i","o","n","s">>)) :
           \A i \in 1..Len(ListedCerts(OfSection(out.val, <<"c","e","r","t","i","f","i","c","a","t","i","o","n","s">>)[c])) :
              Len(ListedCerts(OfSection(out.val, <<"c","e","r","t","i","f","i","c","a","t","i","o","n","s">>)[c])[i]) > MinValidCertLen

\* the deduplication loop of extract_companies after its first k candidates
DedupAfter(t, seed, k) ==
  DedupFrom(SubSeq(CompanyCandidates(t), 1, k), 1, [final |-> <<>>, seen |-> {}],
            Permuted(SeenNames(CompanyCandidates(t)), seed))
KeptNames(st) == {StrLower(st.final[i].name) : i \in 1..Len(st.final)}

\* C28: in the deduplication loop of extract_companies, after each candidate the set of
\* seen names is the set of the lower-cased names of the records kept: no kept record is
\* missing from it and no seen name belongs to a removed record.
C28_SeenAreTheKept ==
  op = "extract_companies" =>
     \A k \in 0..Len(CompanyCandidates(text)) :
        DedupAfter(text, hash_seed, k).seen = KeptNames(DedupAfter(text, hash_seed, k))
\* the same while no record is replaced: a candidate is added with its name or dropped
C28_HoldsUntilReplaced ==
  op = "extract_companies" =>
     \A k \in 0..Len(CompanyCandidates(text)) :
        (\A j \in 1..k : Len(DedupAfter(text, hash_seed, j).final) >= Len(DedupAfter(text, hash_seed, j - 1).final)
                         /\ \A i \in 1..Len(DedupAfter(text, hash_seed, j - 1).final) :
                               DedupAfter(text, hash_seed, j).final[i] = DedupAfter(text, hash_seed, j - 1).final[i])
        => DedupAfter(text, hash_seed, k).seen = KeptNames(DedupAfter(text, hash_seed, k))

\* line k of the section is a degree line: it is scanned and a degree pattern matches it
DegreeLine(t, k) ==
  /\ Len(Strip(EducationLines(t)[k])) >= MinLineLen
  /\ LineDegree(Strip(EducationLines(t)[k])) # <<>>
\* the entries emitted by the first k lines are the first entries after the first j lines
StaysAsEmitted(t, k, j) ==
  SubSeq(ScanAfter(t, j).entries, 1, Len(ScanAfter(t, k).entries)) = ScanAfter(t, k).entries

\* C29: in the section scan of extract_education every entry emitted before the end of
\* the section holds a degree, the entry added at the end of the section never holds one,
\* and what the lines after a degree line give (institution, dates, location) is never put
\* in the entry of that degree: the degree line leaves an empty working entry, and an
\* emitted entry is not changed afterwards.
C29_DegreeClosesItsEntry ==
  op = "extract_education" =>
     \A k \in 1..Len(EducationLines(text)) :
        /\ \A i \in 1..Len(ScanAfter(text, k).entries) : HasKey(ScanAfter(text, k).entries[i], "degree")
        /\ ~HasKey(ScanAfter(text, k).current, "degree")
        /\ DegreeLine(text, k) =>
              /\ ScanAfter(text, k).current = EmptyDict
              /\ \A j \in k..Len(EducationLines(text)) : StaysAsEmitted(text, k, j)
\* a section in which a degree line is followed by a line that gives an institution: the
\* institution is returned in a later entry, not in the entry of the degree before it
C29_Witness ==
  /\ op = "extract_education"
  /\ text = TwoDegrees
  /\ Len(out.val) = 3
  /\ DOMAIN out.val[1] = {"degree"}
  /\ DOMAIN out.val[2] = {"institution", "dates", "degree"}
  /\ DOMAIN out.val[3] = {"institution"}
  /\ out.val = SectionEntries(text)

\* an ingestion that did not complete: it returned False or raised
IngestFailed(name, result) ==
  /\ name \in {"ingest_json_resume", "ingest_universal_resume"}
  /\ (result.exc # "" \/ result.val = FALSE)

\* C30: ingestion is all or nothing for the stored collection: when ingest_json_resume or
\* ingest_universal_resume returns False or raises at any step, the documents of the
\* collection resume_knowledge stored before are unchanged; only a run that returns True
\* replaces them.
C30_AllOrNothing == [][IngestFailed(op', out') => collection' = collection]_vars
\* a run that fails before it reaches the store leaves the collection as it was: it
\* returned False, or the embedding model could not be loaded, or the store is unreachable
C30_EarlyFailureLeavesCollection ==
  [][(/\ IngestFailed(op', out')
      /\ \/ out'.exc = ""
         \/ services.store = "down"
         \/ (op' = "ingest_universal_resume" /\ services.embedding = "down"))
       => collection' = collection]_vars
====
